---- MODULE Spec2Model ----
(***************************************************************************)
(* ReadingDeclaration: the task persistence and validation core.          *)
(*                                                                         *)
(* A JavaScript string is a sequence of characters, each character a      *)
(* one-element TLA+ string; "^A" stands for the control character U+0001. *)
(* A Date is <<"Date", t>>, its ISO-8601 serialisation is <<"iso", t>>,   *)
(* and null is <<"null">>.                                                 *)
(*                                                                         *)
(* The repository holds two TaskManager implementations: the one that     *)
(* reloads from storage after every mutation (src/unnamed/part_000) and   *)
(* the one that patches the in-memory list (src/js/task-manager.js).      *)
(* The variable impl records which one is loaded.                         *)
(***************************************************************************)
EXTENDS Integers, Sequences, FiniteSets, TLC

VARIABLES localStorage, sessionStorage, fallbackToSession, tasks,
          nextId, clock, impl, last

vars == <<localStorage, sessionStorage, fallbackToSession, tasks,
          nextId, clock, impl, last>>

\* ------------------------------------------------------------------ bounds
\* nextId counts the identifiers and clock the timestamps that reached a
\* storage: an identifier or a time of a call that stored nothing is seen by
\* nobody, and the next one handed out differs from every stored one.
MaxTasks == 2
MaxClock == 3
\* the longest collection a direct caller of the adapter builds
MaxStored == 3
\* the longest collection passed to sortTasksByDate
MaxSortLen == 3
\* the number of pieces a text passed to sanitizeInput is put together from
MaxPieces == 3
\* calls of NotificationManager.show that add a notification
MaxShows == 6

\* --------------------------------------------------------- program constants
MaxTitleLength == 100
MaxAuthorLength == 50
maxTweetLength == 280
\* this.maxNotifications of NotificationManager
maxNotifications == 5

\* ------------------------------------------------------------ JS strings
Null == <<"null">>
Date(t) == <<"Date", t>>
Iso(t) == <<"iso", t>>

Rep(c, n) == [i \in 1..n |-> c]

WhiteSpace == {" ", "\t", "\n"}
ControlChars == {"\t", "\n", "^A"}

RECURSIVE TrimStart(_)
TrimStart(s) ==
    IF s = <<>> THEN <<>>
    ELSE IF Head(s) \in WhiteSpace THEN TrimStart(Tail(s)) ELSE s

RECURSIVE TrimEnd(_)
TrimEnd(s) ==
    IF s = <<>> THEN <<>>
    ELSE IF s[Len(s)] \in WhiteSpace THEN TrimEnd(SubSeq(s, 1, Len(s) - 1)) ELSE s

\* String.prototype.trim
trim(s) == TrimEnd(TrimStart(s))

\* s.replace(/c/g, r) for a single character c and a replacement string r
RECURSIVE ReplaceChar(_, _, _)
ReplaceChar(s, c, r) ==
    IF \A i \in 1..Len(s) : s[i] # c THEN s
    ELSE (IF Head(s) = c THEN r ELSE <<Head(s)>>) \o ReplaceChar(Tail(s), c, r)

\* s.replace(/[\x00-\x1F\x7F]/g, '')
RECURSIVE RemoveControl(_)
RemoveControl(s) ==
    IF \A i \in 1..Len(s) : s[i] \notin ControlChars THEN s
    ELSE (IF Head(s) \in ControlChars THEN <<>> ELSE <<Head(s)>>) \o RemoveControl(Tail(s))

\* index of the first '>' at or after position i, 0 if there is none
RECURSIVE FindGt(_, _)
FindGt(s, i) ==
    IF i > Len(s) THEN 0
    ELSE IF s[i] = ">" THEN i ELSE FindGt(s, i + 1)

\* s.replace(/<[^>]*>/g, '') scanning from position i
RECURSIVE RemoveTagsFrom(_, _)
RemoveTagsFrom(s, i) ==
    IF i > Len(s) THEN <<>>
    ELSE IF s[i] = "<" /\ FindGt(s, i + 1) > 0
         THEN RemoveTagsFrom(s, FindGt(s, i + 1) + 1)
         ELSE <<s[i]>> \o RemoveTagsFrom(s, i + 1)

RemoveTags(s) ==
    IF \A i \in 1..Len(s) : s[i] # "<" THEN s ELSE RemoveTagsFrom(s, 1)

\* s.replace(/\s+/g, ' ')
RECURSIVE CollapseSpaces(_)
CollapseSpaces(s) ==
    IF \A i \in 1..Len(s) : s[i] \notin WhiteSpace THEN s
    ELSE IF Head(s) \in WhiteSpace
         THEN <<" ">> \o CollapseSpaces(TrimStart(s))
         ELSE <<Head(s)>> \o CollapseSpaces(Tail(s))

\* F(x) with x evaluated once, before F is applied: one step of a chain of
\* method calls on a string
Then(x, F(_)) == CHOOSE r \in { F(t) : t \in {x} } : TRUE

\* ------------------------------------------------------------ inputs
\* An argument of addTask: a string, or a value that is not a string.
Str(s) == [isString |-> TRUE, val |-> s]
NotAString == [isString |-> FALSE, val |-> <<>>]

\* -------------------------------------------------------- TaskValidator
TaskValidator_sanitizeInput(input) ==
    IF ~input.isString THEN <<>>
    ELSE LET t0 == trim(input.val)
             t1 == ReplaceChar(t0, "<", <<"&", "l", "t", ";">>)
             t2 == ReplaceChar(t1, ">", <<"&", "g", "t", ";">>)
             t3 == ReplaceChar(t2, "\"", <<"&", "q", "u", "o", "t", ";">>)
             t4 == ReplaceChar(t3, "'", <<"&", "#", "x", "2", "7", ";">>)
             t5 == ReplaceChar(t4, "/", <<"&", "#", "x", "2", "F", ";">>)
         IN  t5

\* validateBookTitle without the limit of 100 characters
validateBookTitle_noLimit(title) ==
    /\ title # <<>>
    /\ Len(trim(title)) # 0

\* errors.length === 0 of validateBookTitle
validateBookTitle(title) ==
    /\ title # <<>>
    /\ Len(trim(title)) # 0
    /\ Len(title) <= MaxTitleLength

validateAuthor(author) ==
    author # <<>> => Len(author) <= MaxAuthorLength

TaskValidator_validateTaskData(taskData) ==
    validateBookTitle(taskData.bookTitle) /\ validateAuthor(taskData.author)

prepareTaskData(bookTitle, author) ==
    LET sanitizedTitle == TaskValidator_sanitizeInput(bookTitle)
        sanitizedAuthor == TaskValidator_sanitizeInput(author)
        data == [bookTitle |-> sanitizedTitle, author |-> sanitizedAuthor]
    IN  [data |-> data, isValid |-> TaskValidator_validateTaskData(data)]

\* ------------------------------------------------------------------ Task
Digit == <<"1", "2", "3", "4", "5", "6", "7", "8", "9">>

\* a generator that hands out one identifier again and again
generateUUID_repeating(n) == <<"u", Digit[1]>>

\* The n-th identifier produced by generateUUID.  Version-4 UUIDs carry 122
\* random bits; the model takes them to be pairwise distinct.
generateUUID(n) == <<"u", Digit[n]>>

\* new Task(bookTitle, author), with the id and the time of construction
Task(id, bookTitle, author, now) ==
    [id |-> id, bookTitle |-> bookTitle, author |-> author,
     status |-> "active", createdAt |-> Date(now), completedAt |-> Null]

\* complete() that forgets the timestamp
Task_complete_noTimestamp(task, now) ==
    [task EXCEPT !.status = "completed"]

Task_complete(task, now) ==
    [task EXCEPT !.status = "completed", !.completedAt = Date(now)]

\* new Date(x) of a Date or of an ISO string
NewDate(x) == Date(x[2])

\* Task.toJSON: an object with the six fields of the Task (the dates are the
\* Date objects themselves)
Task_toJSON(task) ==
    [id |-> task.id, bookTitle |-> task.bookTitle, author |-> task.author,
     status |-> task.status, createdAt |-> task.createdAt,
     completedAt |-> task.completedAt]

\* a fromJSON that keeps the id and the creation time of the Task it built
Task_fromJSON_fresh(data) ==
    LET task == Task(generateUUID(nextId), data.bookTitle, data.author, clock + 1)
    IN  [task EXCEPT
            !.status = data.status,
            !.completedAt = IF data.completedAt # Null
                            THEN NewDate(data.completedAt) ELSE Null]

\* Task.fromJSON: new Task(...) gets a generated id and the current time,
\* which the four assignments that follow overwrite
Task_fromJSON(data) ==
    LET task == Task(generateUUID(nextId), data.bookTitle, data.author, clock + 1)
    IN  [task EXCEPT
            !.id = data.id,
            !.status = data.status,
            !.createdAt = NewDate(data.createdAt),
            !.completedAt = IF data.completedAt # Null
                            THEN NewDate(data.completedAt) ELSE Null]

NoTask ==
    [id |-> <<>>, bookTitle |-> <<>>, author |-> <<>>,
     status |-> "none", createdAt |-> Null, completedAt |-> Null]

\* ------------------------------------------------------- storage environment
\* The condition of the browser's storages while one operation runs:
\*   ok            localStorage works
\*   localFull     the probe of isStorageAvailable succeeds, but setItem of the
\*                 collection throws (quota exceeded)
\*   fallback      the probe throws, sessionStorage works
\*   fallbackFull  the probe throws, sessionStorage.setItem throws
\*   noStorage     the probe throws and every access to sessionStorage throws
\* The condition does not change within one synchronous operation.
Envs == {"ok", "localFull", "fallback", "fallbackFull", "noStorage"}

\* the conditions under which the primary store is available
PrimaryUpEnvs == {"ok", "localFull"}

\* --------------------------------------------------------- StorageManager
\* A StorageManager together with the storages it reaches:
\*   [local, session, fb]  fb is this.fallbackToSession.
\* The value under the key 'reading-tasks' is the sequence of stored records;
\* an absent key and the stored text "[]" both load as the empty collection
\* and are both the empty sequence here.

isStorageAvailable(env) == env \in {"ok", "localFull"}

\* the storage getStorage returns
getStorage(env) == IF isStorageAvailable(env) THEN "localStorage" ELSE "sessionStorage"

\* the StorageManager after a call of getStorage
Probed(sm, env) ==
    IF isStorageAvailable(env) THEN sm ELSE [sm EXCEPT !.fb = TRUE]

getItem(sm, env) ==
    IF getStorage(env) = "localStorage" THEN sm.local ELSE sm.session

setItem(sm, env, json) ==
    IF getStorage(env) = "localStorage"
    THEN [sm EXCEPT !.local = json]
    ELSE [sm EXCEPT !.session = json]

\* JSON.stringify of one record: a Date becomes its ISO string
ToJsonDate(x) == IF x = Null THEN Null ELSE Iso(x[2])

JSON_stringify(ts) ==
    [i \in 1..Len(ts) |->
        [ts[i] EXCEPT !.createdAt = ToJsonDate(ts[i].createdAt),
                      !.completedAt = ToJsonDate(ts[i].completedAt)]]

\* A stored text that was not written by saveTasks is a one-element sequence
\* holding a marker:
\*   unparsable  '{oops'      JSON.parse throws
\*   object      '{"a":1}'    parses, has no map method
\*   null        'null'       parses to null
\*   nulls       '[null]'     an array, the callback of map throws on null
\*   numbers     '[1]'        an array, the callback of map runs on a number
CorruptKinds == {"unparsable", "object", "null", "nulls", "numbers"}

Corrupt(kind) == << [corrupt |-> kind] >>

IsCorrupt(json) == Len(json) = 1 /\ "corrupt" \in DOMAIN json[1]

\* what loadTasks returns for such a text: every throw is caught and gives
\* [], but '[1]' maps to one object { createdAt: Invalid Date,
\* completedAt: null }
ParseCorrupt(kind) ==
    IF kind = "numbers"
    THEN << [createdAt |-> Date("NaN"), completedAt |-> Null] >>
    ELSE <<>>

\* StorageManager.loadTasks: the collection it returns
SM_loadTasks(sm, env) ==
    IF env = "noStorage" THEN <<>>
    ELSE LET json == getItem(sm, env)
         IN  IF IsCorrupt(json) THEN ParseCorrupt(json[1].corrupt)
             ELSE [i \in 1..Len(json) |->
                    [json[i] EXCEPT
                        !.createdAt = NewDate(json[i].createdAt),
                        !.completedAt = IF json[i].completedAt # Null
                                        THEN NewDate(json[i].completedAt) ELSE Null]]

\* StorageManager.saveTasks: [ret, sm]
SM_saveTasks(sm, env, ts) ==
    IF env \in {"localFull", "fallbackFull", "noStorage"}
    THEN [ret |-> FALSE, sm |-> Probed(sm, env)]
    ELSE [ret |-> TRUE, sm |-> setItem(Probed(sm, env), env, JSON_stringify(ts))]

SM_validateTaskData(task) ==
    /\ {"id", "bookTitle", "status", "createdAt"} \subseteq DOMAIN task
    /\ Len(task.id) # 0
    /\ Len(trim(task.bookTitle)) # 0
    /\ task.status \in {"active", "completed"}
    /\ task.createdAt[1] \in {"Date", "iso"}
    /\ task.completedAt[1] \in {"null", "Date", "iso"}
    /\ Len(task.bookTitle) <= MaxTitleLength
    /\ (task.author # <<>> => Len(task.author) <= MaxAuthorLength)

sanitizeString(str) ==
    CollapseSpaces(RemoveTags(RemoveControl(trim(str))))

sanitizeTaskData(task) ==
    [id |-> sanitizeString(task.id),
     bookTitle |-> sanitizeString(task.bookTitle),
     author |-> IF task.author # <<>> THEN sanitizeString(task.author) ELSE <<>>,
     status |-> task.status,
     createdAt |-> task.createdAt,
     completedAt |-> task.completedAt]

\* index of the first record with the id, 0 for findIndex's -1
RECURSIVE FindFrom(_, _, _)
FindFrom(ts, id, i) ==
    IF i > Len(ts) THEN 0
    ELSE IF ts[i].id = id THEN i ELSE FindFrom(ts, id, i + 1)

findIndex(ts, id) == FindFrom(ts, id, 1)

\* tasks[existingIndex] = sanitizedTask, or tasks.push(sanitizedTask)
Upsert(ts, existingIndex, sanitizedTask) ==
    IF existingIndex >= 1
    THEN [ts EXCEPT ![existingIndex] = sanitizedTask]
    ELSE Append(ts, sanitizedTask)

\* StorageManager.saveTask: [ret, sm]
SM_saveTask(sm, env, task) ==
    IF ~SM_validateTaskData(task) THEN [ret |-> FALSE, sm |-> sm]
    ELSE LET ts == SM_loadTasks(sm, env)
             existingIndex == findIndex(ts, task.id)
             sanitizedTask == sanitizeTaskData(task)
         IN  SM_saveTasks(Probed(sm, env), env, Upsert(ts, existingIndex, sanitizedTask))

\* { ...task, ...updates }: updates is a set of field names and a record
\* that gives their values
Merge(task, fields, updates) ==
    [f \in DOMAIN task |-> IF f \in fields THEN updates[f] ELSE task[f]]

\* StorageManager.updateTask: [ret, sm]
SM_updateTask(sm, env, taskId, fields, updates) ==
    LET ts == SM_loadTasks(sm, env)
        taskIndex == findIndex(ts, taskId)
    IN  IF taskIndex = 0 THEN [ret |-> FALSE, sm |-> Probed(sm, env)]
        ELSE SM_saveTasks(Probed(sm, env), env,
                          [ts EXCEPT ![taskIndex] = Merge(ts[taskIndex], fields, updates)])

\* tasks.filter(t => t.id !== taskId)
RECURSIVE FilterOut(_, _)
FilterOut(ts, id) ==
    IF ts = <<>> THEN <<>>
    ELSE (IF Head(ts).id # id THEN <<Head(ts)>> ELSE <<>>) \o FilterOut(Tail(ts), id)

\* StorageManager.deleteTask: [ret, sm]
SM_deleteTask(sm, env, taskId) ==
    LET ts == SM_loadTasks(sm, env)
        filteredTasks == FilterOut(ts, taskId)
    IN  IF Len(filteredTasks) = Len(ts) THEN [ret |-> FALSE, sm |-> Probed(sm, env)]
        ELSE SM_saveTasks(Probed(sm, env), env, filteredTasks)

\* a clearAllTasks that reports success and removes nothing
SM_clearAllTasks_keeps(sm, env) == [ret |-> TRUE, sm |-> Probed(sm, env)]

\* StorageManager.clearAllTasks: [ret, sm]; removeItem throws only when the
\* storage cannot be accessed at all
SM_clearAllTasks(sm, env) ==
    IF env = "noStorage" THEN [ret |-> FALSE, sm |-> Probed(sm, env)]
    ELSE [ret |-> TRUE, sm |-> setItem(Probed(sm, env), env, <<>>)]

\* ------------------------------------------------------------ TaskManager
\* Two browsing contexts (tabs) can run the application on one localStorage;
\* each has its own TaskManager, StorageManager and sessionStorage.
TMs == {1, 2}

SMof(tm) ==
    [local |-> localStorage, session |-> sessionStorage[tm], fb |-> fallbackToSession[tm]]

\* the storages and the StorageManager of tm become sm
SetSM(tm, sm) ==
    /\ localStorage' = sm.local
    /\ sessionStorage' = [sessionStorage EXCEPT ![tm] = sm.session]
    /\ fallbackToSession' = [fallbackToSession EXCEPT ![tm] = sm.fb]

\* TaskManager.loadTasks: the new value of this.tasks
loadTasks(sm, env) == SM_loadTasks(sm, env)

\* new TaskManager(storageManager): this.tasks after the constructor
TaskManager_new(sm, env) == loadTasks(sm, env)

\* TaskManager.getTask: the record, or NoTask for null
getTask(ts, taskId) ==
    IF findIndex(ts, taskId) = 0 THEN NoTask ELSE ts[findIndex(ts, taskId)]

getActiveTasks(ts) == SelectSeq(ts, LAMBDA t : t.status = "active")
getCompletedTasks(ts) == SelectSeq(ts, LAMBDA t : t.status = "completed")

\* What the last operation was and what it returned:
\*   id     the id passed to the call, or the id of the Task addTask built
\*   ok     the call returned a record or true (FALSE: null or false)
\*   rec    the record returned (NoTask when none)
\*   saved  what the adapter's saveTask/updateTask/deleteTask/clearAllTasks
\*          returned: "true", "false", or "notcalled"
\*   args   the title and the author passed to addTask (NoArgs otherwise)
Last(op, tm, args, id, ok, rec, saved) ==
    [op |-> op, tm |-> tm, args |-> args, id |-> id, ok |-> ok, rec |-> rec,
     saved |-> saved]

NoArgs == <<Str(<<>>), Str(<<>>)>>

\* the part of an operation that touched no storage
NoStorageCall ==
    UNCHANGED <<localStorage, sessionStorage, fallbackToSession>>

\* TaskManager.addTask of src/unnamed/part_000
addTask(tm, bookTitle, author, env) ==
    /\ impl = "reload"
    /\ LET prepared == prepareTaskData(bookTitle, author)
       IN  IF ~prepared.isValid
           THEN /\ last' = Last("addTask", tm, <<bookTitle, author>>, <<>>,
                                FALSE, NoTask, "notcalled")
                /\ NoStorageCall
                /\ UNCHANGED <<tasks, nextId, clock>>
           ELSE /\ nextId <= MaxTasks
                /\ clock < MaxClock
                /\ LET task == Task(generateUUID(nextId), prepared.data.bookTitle,
                                    prepared.data.author, clock + 1)
                       saved == SM_saveTask(SMof(tm), env, task)
                   IN  /\ SetSM(tm, saved.sm)
                       /\ nextId' = IF saved.ret THEN nextId + 1 ELSE nextId
                       /\ clock' = IF saved.ret THEN clock + 1 ELSE clock
                       /\ IF ~saved.ret
                          THEN /\ UNCHANGED tasks
                               /\ last' = Last("addTask", tm, <<bookTitle, author>>, task.id,
                                               FALSE, NoTask, "false")
                          ELSE /\ tasks' = [tasks EXCEPT ![tm] = loadTasks(saved.sm, env)]
                               /\ last' = Last("addTask", tm, <<bookTitle, author>>, task.id,
                                               TRUE, task, "true")
    /\ UNCHANGED impl

\* a failed save that leaves the pushed record in the list
addTask_js_noRollback(ts, id) == ts

\* this.tasks = this.tasks.filter(t => t.id !== task.id) after a failed save
addTask_js_rollback(ts, id) == FilterOut(ts, id)

\* TaskManager.addTask of src/js/task-manager.js
addTask_js(tm, bookTitle, author, env) ==
    /\ impl = "patch"
    /\ LET prepared == prepareTaskData(bookTitle, author)
       IN  IF ~prepared.isValid
           THEN /\ last' = Last("addTask", tm, <<bookTitle, author>>, <<>>,
                                FALSE, NoTask, "notcalled")
                /\ NoStorageCall
                /\ UNCHANGED <<tasks, nextId, clock>>
           ELSE /\ nextId <= MaxTasks
                /\ clock < MaxClock
                /\ LET task == Task(generateUUID(nextId), prepared.data.bookTitle,
                                    prepared.data.author, clock + 1)
                       pushed == Append(tasks[tm], task)
                       saved == SM_saveTask(SMof(tm), env, task)
                   IN  /\ SetSM(tm, saved.sm)
                       /\ nextId' = IF saved.ret THEN nextId + 1 ELSE nextId
                       /\ clock' = IF saved.ret THEN clock + 1 ELSE clock
                       /\ IF ~saved.ret
                          THEN /\ tasks' = [tasks EXCEPT ![tm] = addTask_js_rollback(pushed, task.id)]
                               /\ last' = Last("addTask", tm, <<bookTitle, author>>, task.id,
                                               FALSE, NoTask, "false")
                          ELSE /\ tasks' = [tasks EXCEPT ![tm] = pushed]
                               /\ last' = Last("addTask", tm, <<bookTitle, author>>, task.id,
                                               TRUE, task, "true")
    /\ UNCHANGED impl

CompletionUpdates(updatedTaskData) ==
    [status |-> "completed", completedAt |-> updatedTaskData.completedAt]

\* completeTask that rejects unknown ids only
completeTask_rejects_unknownOnly(taskData) ==
    taskData = NoTask

\* the two throws at the head of completeTask: unknown id, already completed
completeTask_rejects(taskData) ==
    taskData = NoTask \/ taskData.status = "completed"

\* TaskManager.completeTask of src/unnamed/part_000
completeTask(tm, taskId, env) ==
    /\ impl = "reload"
    /\ LET taskData == getTask(tasks[tm], taskId)
       IN  IF completeTask_rejects(taskData)
           THEN /\ last' = Last("completeTask", tm, NoArgs, taskId,
                                FALSE, NoTask, "notcalled")
                /\ NoStorageCall
                /\ UNCHANGED <<tasks, clock>>
           ELSE /\ clock < MaxClock
                /\ LET updatedTaskData == Task_complete(Task_fromJSON(taskData), clock + 1)
                       saved == SM_updateTask(SMof(tm), env, taskId,
                                              {"status", "completedAt"},
                                              CompletionUpdates(updatedTaskData))
                   IN  /\ SetSM(tm, saved.sm)
                       /\ clock' = IF saved.ret THEN clock + 1 ELSE clock
                       /\ IF ~saved.ret
                          THEN /\ UNCHANGED tasks
                               /\ last' = Last("completeTask", tm, NoArgs, taskId,
                                               FALSE, NoTask, "false")
                          ELSE /\ tasks' = [tasks EXCEPT ![tm] = loadTasks(saved.sm, env)]
                               /\ last' = Last("completeTask", tm, NoArgs, taskId,
                                               TRUE, updatedTaskData, "true")
    /\ UNCHANGED <<nextId, impl>>

\* TaskManager.completeTask of src/js/task-manager.js
completeTask_js(tm, taskId, env) ==
    /\ impl = "patch"
    /\ LET taskIndex == findIndex(tasks[tm], taskId)
       IN  IF taskIndex = 0 \/ tasks[tm][taskIndex].status = "completed"
           THEN /\ last' = Last("completeTask", tm, NoArgs, taskId,
                                FALSE, NoTask, "notcalled")
                /\ NoStorageCall
                /\ UNCHANGED <<tasks, clock>>
           ELSE /\ clock < MaxClock
                /\ LET taskData == tasks[tm][taskIndex]
                       updatedTaskData == Task_complete(Task_fromJSON(taskData), clock + 1)
                       patched == [tasks[tm] EXCEPT ![taskIndex] = updatedTaskData]
                       saved == SM_updateTask(SMof(tm), env, taskId,
                                              {"status", "completedAt"},
                                              CompletionUpdates(updatedTaskData))
                   IN  /\ SetSM(tm, saved.sm)
                       /\ clock' = IF saved.ret THEN clock + 1 ELSE clock
                       /\ IF ~saved.ret
                          THEN /\ tasks' = [tasks EXCEPT ![tm] =
                                               [patched EXCEPT ![taskIndex] = taskData]]
                               /\ last' = Last("completeTask", tm, NoArgs, taskId,
                                               FALSE, NoTask, "false")
                          ELSE /\ tasks' = [tasks EXCEPT ![tm] = patched]
                               /\ last' = Last("completeTask", tm, NoArgs, taskId,
                                               TRUE, updatedTaskData, "true")
    /\ UNCHANGED <<nextId, impl>>

\* TaskManager.deleteTask of src/unnamed/part_000
deleteTask(tm, taskId, env) ==
    /\ impl = "reload"
    /\ IF getTask(tasks[tm], taskId) = NoTask
       THEN /\ last' = Last("deleteTask", tm, NoArgs, taskId,
                            FALSE, NoTask, "notcalled")
            /\ NoStorageCall
            /\ UNCHANGED tasks
       ELSE LET deleted == SM_deleteTask(SMof(tm), env, taskId)
            IN  /\ SetSM(tm, deleted.sm)
                /\ IF ~deleted.ret
                   THEN /\ UNCHANGED tasks
                        /\ last' = Last("deleteTask", tm, NoArgs, taskId,
                                        FALSE, NoTask, "false")
                   ELSE /\ tasks' = [tasks EXCEPT ![tm] = loadTasks(deleted.sm, env)]
                        /\ last' = Last("deleteTask", tm, NoArgs, taskId,
                                        TRUE, NoTask, "true")
    /\ UNCHANGED <<nextId, clock, impl>>

\* a splice that removes the element after the one asked for
RemoveAt_offByOne(ts, i) == SubSeq(ts, 1, i) \o SubSeq(ts, i + 2, Len(ts))

\* ts.splice(i, 1)
RemoveAt(ts, i) == SubSeq(ts, 1, i - 1) \o SubSeq(ts, i + 1, Len(ts))

\* a rollback that forgets to put the removed record back
InsertAt_lost(ts, i, x) == ts

\* ts.splice(i, 0, x)
InsertAt(ts, i, x) == SubSeq(ts, 1, i - 1) \o <<x>> \o SubSeq(ts, i, Len(ts))

\* TaskManager.deleteTask of src/js/task-manager.js
deleteTask_js(tm, taskId, env) ==
    /\ impl = "patch"
    /\ LET taskIndex == findIndex(tasks[tm], taskId)
       IN  IF taskIndex = 0
           THEN /\ last' = Last("deleteTask", tm, NoArgs, taskId,
                                FALSE, NoTask, "notcalled")
                /\ NoStorageCall
                /\ UNCHANGED tasks
           ELSE LET deletedTask == tasks[tm][taskIndex]
                    spliced == RemoveAt(tasks[tm], taskIndex)
                    deleted == SM_deleteTask(SMof(tm), env, taskId)
                IN  /\ SetSM(tm, deleted.sm)
                    /\ IF ~deleted.ret
                       THEN /\ tasks' = [tasks EXCEPT ![tm] =
                                            InsertAt(spliced, taskIndex, deletedTask)]
                            /\ last' = Last("deleteTask", tm, NoArgs, taskId,
                                            FALSE, NoTask, "false")
                       ELSE /\ tasks' = [tasks EXCEPT ![tm] = spliced]
                            /\ last' = Last("deleteTask", tm, NoArgs, taskId,
                                            TRUE, NoTask, "true")
    /\ UNCHANGED <<nextId, clock, impl>>

\* TaskManager.clearAllTasks (the same code in both implementations)
clearAllTasks(tm, env) ==
    /\ LET cleared == SM_clearAllTasks(SMof(tm), env)
       IN  /\ SetSM(tm, cleared.sm)
           /\ IF ~cleared.ret
              THEN /\ UNCHANGED tasks
                   /\ last' = Last("clearAllTasks", tm, NoArgs, <<>>,
                                   FALSE, NoTask, "false")
              ELSE /\ tasks' = [tasks EXCEPT ![tm] = <<>>]
                   /\ last' = Last("clearAllTasks", tm, NoArgs, <<>>,
                                   TRUE, NoTask, "true")
    /\ UNCHANGED <<nextId, clock, impl>>

\* TaskManager.refresh (the same code in both implementations)
refresh(tm, env) ==
    /\ tasks' = [tasks EXCEPT ![tm] = loadTasks(SMof(tm), env)]
    /\ SetSM(tm, Probed(SMof(tm), env))
    /\ last' = Last("refresh", tm, NoArgs, <<>>, TRUE, NoTask, "notcalled")
    /\ UNCHANGED <<nextId, clock, impl>>

\* ------------------------------------------------------------------ inputs
\* titles the validator rejects
InvalidTitles ==
    { Str(<<>>),                       \* empty
      Str(<<" ">>),                    \* whitespace only
      NotAString,                      \* null, undefined, a number
      Str(Rep("a", MaxTitleLength + 1)),   \* too long as typed
      Str(Rep("<", 26)) }              \* too long once escaped (26 * 4 = 104)

Titles == { Str(<<"a">>) } \cup InvalidTitles

\* titles the validator accepts and the storage boundary rewrites
RewrittenTitles ==
    { Str(<<"a", " ", " ", "b">>),     \* two consecutive blanks inside
      Str(<<"^A">>) }                  \* a control character only

\* the (title, author) pairs passed to addTask: every title without an
\* author, and the plain title with an author that is too long
AddInputs ==
    { <<t, Str(<<>>)>> : t \in Titles }
    \cup { <<Str(<<"a">>), Str(Rep("b", MaxAuthorLength + 1))>> }

\* the ids a caller can pass: the ids generateUUID hands out and an unknown id
TaskIds == { generateUUID(n) : n \in 1..MaxTasks } \cup { <<"x">> }

\* ---------------------------------------------------------- specification
Init ==
    /\ localStorage = <<>>
    /\ sessionStorage = [tm \in TMs |-> <<>>]
    /\ fallbackToSession = [tm \in TMs |-> FALSE]
    /\ tasks = [tm \in TMs |-> <<>>]
    /\ nextId = 1
    /\ clock = 0
    /\ impl \in {"reload", "patch"}
    /\ last = Last("new", 1, NoArgs, <<>>, TRUE, NoTask, "notcalled")

\* One TaskManager, with storage failures.
Next ==
    \/ \E in \in AddInputs, env \in Envs : addTask(1, in[1], in[2], env)
    \/ \E in \in AddInputs, env \in Envs : addTask_js(1, in[1], in[2], env)
    \/ \E id \in TaskIds, env \in Envs : completeTask(1, id, env)
    \/ \E id \in TaskIds, env \in Envs : completeTask_js(1, id, env)
    \/ \E id \in TaskIds, env \in Envs : deleteTask(1, id, env)
    \/ \E id \in TaskIds, env \in Envs : deleteTask_js(1, id, env)
    \/ \E env \in Envs : clearAllTasks(1, env)
    \/ \E env \in Envs : refresh(1, env)

Spec == Init /\ [][Next]_vars

\* One TaskManager, the primary store available throughout (writes can still
\* fail), titles that the storage boundary rewrites.
NextPrimaryUp ==
    \/ \E t \in RewrittenTitles, env \in PrimaryUpEnvs : addTask(1, t, Str(<<>>), env)
    \/ \E t \in RewrittenTitles, env \in PrimaryUpEnvs : addTask_js(1, t, Str(<<>>), env)
    \/ \E id \in TaskIds, env \in PrimaryUpEnvs : completeTask(1, id, env)
    \/ \E id \in TaskIds, env \in PrimaryUpEnvs : completeTask_js(1, id, env)
    \/ \E id \in TaskIds, env \in PrimaryUpEnvs : deleteTask(1, id, env)
    \/ \E id \in TaskIds, env \in PrimaryUpEnvs : deleteTask_js(1, id, env)
    \/ \E env \in PrimaryUpEnvs : clearAllTasks(1, env)
    \/ \E env \in PrimaryUpEnvs : refresh(1, env)

SpecPrimaryUp == Init /\ [][NextPrimaryUp]_vars

\* Two TaskManagers (two tabs) on one working localStorage.
NextShared ==
    \/ \E tm \in TMs : addTask(tm, Str(<<"a">>), Str(<<>>), "ok")
    \/ \E tm \in TMs : addTask_js(tm, Str(<<"a">>), Str(<<>>), "ok")
    \/ \E tm \in TMs, id \in TaskIds : completeTask(tm, id, "ok")
    \/ \E tm \in TMs, id \in TaskIds : completeTask_js(tm, id, "ok")
    \/ \E tm \in TMs, id \in TaskIds : deleteTask(tm, id, "ok")
    \/ \E tm \in TMs, id \in TaskIds : deleteTask_js(tm, id, "ok")
    \/ \E tm \in TMs : clearAllTasks(tm, "ok")
    \/ \E tm \in TMs : refresh(tm, "ok")

SpecShared == Init /\ [][NextShared]_vars

\* ------------------------------------------- direct calls of the adapter
Bool(b) == IF b THEN "true" ELSE "false"

\* storageManager.saveTask(task) called by a user of the adapter
saveTaskCall(task, env) ==
    /\ LET r == SM_saveTask(SMof(1), env, task)
       IN  /\ Len(r.sm.local) <= MaxStored
           /\ SetSM(1, r.sm)
           /\ last' = Last("saveTask", 1, NoArgs, task.id, r.ret, NoTask, Bool(r.ret))
    /\ UNCHANGED <<tasks, nextId, clock, impl>>

\* storageManager.updateTask(taskId, updates)
updateTaskCall(taskId, fields, updates, env) ==
    /\ LET r == SM_updateTask(SMof(1), env, taskId, fields, updates)
       IN  /\ SetSM(1, r.sm)
           /\ last' = Last("updateTask", 1, NoArgs, taskId, r.ret, NoTask, Bool(r.ret))
    /\ UNCHANGED <<tasks, nextId, clock, impl>>

\* storageManager.deleteTask(taskId)
deleteTaskCall(taskId, env) ==
    /\ LET r == SM_deleteTask(SMof(1), env, taskId)
       IN  /\ SetSM(1, r.sm)
           /\ last' = Last("storage.deleteTask", 1, NoArgs, taskId, r.ret, NoTask, Bool(r.ret))
    /\ UNCHANGED <<tasks, nextId, clock, impl>>

\* ids a user of the adapter passes: two ids, and one with a leading blank
CallerIds == { <<"a">>, <<"b">>, <<" ", "a">> }

CallerTitles == { <<"a">>, <<"<", "b", ">">> }

CallerRecords ==
    { [id |-> i, bookTitle |-> t, author |-> <<>>, status |-> "active",
       createdAt |-> Date(1), completedAt |-> Null] :
      i \in CallerIds, t \in CallerTitles }

\* the partial fields passed to updateTask, as <<field names, values>>
CallerUpdates ==
    { <<{"status", "completedAt"}, [status |-> "completed", completedAt |-> Date(2)]>>,
      <<{"id"}, [id |-> <<"b">>]>> }

NextSM ==
    \/ \E task \in CallerRecords, env \in PrimaryUpEnvs : saveTaskCall(task, env)
    \/ \E id \in CallerIds, u \in CallerUpdates, env \in PrimaryUpEnvs :
          updateTaskCall(id, u[1], u[2], env)
    \/ \E id \in CallerIds, env \in PrimaryUpEnvs : deleteTaskCall(id, env)

SpecSM == Init /\ [][NextSM]_vars

\* ------------------------------------------------------- getStorageInfo
\* StorageManager.getStorageInfo: the object it returns.  storageType is read
\* from this.fallbackToSession after getStorage and loadTasks have run.
getStorageInfo(sm, env) ==
    [taskCount |-> Len(SM_loadTasks(sm, env)),
     storageType |-> IF Probed(sm, env).fb THEN "sessionStorage" ELSE "localStorage",
     isAvailable |-> isStorageAvailable(env)]

\* storageManager.getStorageInfo() called by the application.  Its first
\* statement, this.getStorage(), is outside any try: when sessionStorage
\* cannot be accessed the call throws (ok = FALSE) after the flag was set.
getStorageInfoCall(env) ==
    /\ SetSM(1, Probed(SMof(1), env))
    /\ IF env = "noStorage"
       THEN last' = Last("getStorageInfo", 1, NoArgs, <<>>, FALSE, NoTask, "notcalled")
       ELSE last' = Last("getStorageInfo", 1, NoArgs, <<>>, TRUE,
                         getStorageInfo(SMof(1), env), "notcalled")
    /\ UNCHANGED <<tasks, nextId, clock, impl>>

\* One TaskManager with storage failures, and the diagnostics call.
NextInfo ==
    \/ Next
    \/ \E env \in Envs : getStorageInfoCall(env)

SpecInfo == Init /\ [][NextInfo]_vars

\* ------------------------------------- records of an invalid shape
\* a record as a user of the adapter builds it
CallerRecord(id, bookTitle, author, status, completedAt) ==
    [id |-> id, bookTitle |-> bookTitle, author |-> author, status |-> status,
     createdAt |-> Date(1), completedAt |-> completedAt]

\* records passed to saveTask that do not have the shape of a task
InvalidRecords ==
    { [id |-> <<"a">>, bookTitle |-> <<"a">>, author |-> <<>>,
       createdAt |-> Date(1), completedAt |-> Null],                  \* no status
      CallerRecord(<<>>, <<"a">>, <<>>, "active", Null),              \* empty id
      CallerRecord(<<"a">>, <<>>, <<>>, "active", Null),              \* empty title
      CallerRecord(<<"a">>, Rep("a", MaxTitleLength + 1), <<>>, "active", Null),
      CallerRecord(<<"a">>, <<"a">>, Rep("b", MaxAuthorLength + 1), "active", Null),
      CallerRecord(<<"a">>, <<"a">>, <<>>, "pending", Null),          \* unknown status
      CallerRecord(<<"a">>, <<"a">>, <<>>, "active", Date(2)),        \* active, completedAt set
      CallerRecord(<<"a">>, <<"a">>, <<>>, "completed", Null) }       \* completed, no completedAt

\* Direct calls of the adapter, with records of an invalid shape among them.
NextShape ==
    \/ NextSM
    \/ \E task \in InvalidRecords, env \in PrimaryUpEnvs : saveTaskCall(task, env)

SpecShape == Init /\ [][NextShape]_vars

\* ------------------------------------------- stored text of any origin
\* another script, or the user, writes a text under the key 'reading-tasks'
corruptStore(kind) ==
    /\ localStorage' = Corrupt(kind)
    /\ last' = Last("corruptStore", 1, NoArgs, <<>>, TRUE, NoTask, "notcalled")
    /\ UNCHANGED <<sessionStorage, fallbackToSession, tasks, nextId, clock, impl>>

\* storageManager.loadTasks(): the whole body is inside try, so the call
\* returns (ok = TRUE) with the collection in rec
loadTasksCall(env) ==
    /\ SetSM(1, Probed(SMof(1), env))
    /\ last' = Last("loadTasks", 1, NoArgs, <<>>, TRUE,
                    SM_loadTasks(SMof(1), env), "notcalled")
    /\ UNCHANGED <<tasks, nextId, clock, impl>>

NextCorrupt ==
    \/ \E kind \in CorruptKinds : corruptStore(kind)
    \/ \E env \in Envs : loadTasksCall(env)
    \/ \E env \in Envs : refresh(1, env)
    \/ \E env \in Envs : clearAllTasks(1, env)
    \/ \E env \in Envs : getStorageInfoCall(env)

SpecCorrupt == Init /\ [][NextCorrupt]_vars

\* ------------------------------------------------ arrays handed to callers
\* An array a caller holds is [array, val]: array says which array object it
\* is ("this.tasks", or "copy" for an array created by the call) and val is
\* its contents.  The elements are the same objects in both.

\* a getAllTasks that returns this.tasks itself
getAllTasks_alias(ts) == [array |-> "this.tasks", val |-> ts]

\* TaskManager.getAllTasks: [...this.tasks]
getAllTasks(ts) == [array |-> "copy", val |-> ts]

\* a getTaskStats that takes the rate from the active tasks
getTaskStats_activeRate(ts) ==
    [total |-> Len(getAllTasks(ts).val),
     active |-> Len(getActiveTasks(ts)),
     completed |-> Len(getCompletedTasks(ts)),
     completionRate |-> IF Len(getAllTasks(ts).val) > 0
                        THEN <<100 * Len(getActiveTasks(ts)), Len(getAllTasks(ts).val)>>
                        ELSE <<0, 1>>]

\* TaskManager.getTaskStats; completionRate (completed / total * 100) is kept
\* as the pair <<100 * completed, total>>, and is 0 for no tasks
getTaskStats(ts) ==
    [total |-> Len(getAllTasks(ts).val),
     active |-> Len(getActiveTasks(ts)),
     completed |-> Len(getCompletedTasks(ts)),
     completionRate |-> IF Len(getAllTasks(ts).val) > 0
                        THEN <<100 * Len(getCompletedTasks(ts)), Len(getAllTasks(ts).val)>>
                        ELSE <<0, 1>>]

\* taskManager.getAllTasks() called by the application
getAllTasksCall ==
    /\ last' = Last("getAllTasks", 1, NoArgs, <<>>, TRUE, getAllTasks(tasks[1]), "notcalled")
    /\ UNCHANGED <<localStorage, sessionStorage, fallbackToSession, tasks,
                   nextId, clock, impl>>

\* what a caller does to the array it got
CallerMutations == {"push", "pop", "reverse"}

\* the object a caller pushes
Pushed == Task(<<"x">>, <<"a">>, <<>>, 0)

Reverse(a) == [i \in 1..Len(a) |-> a[Len(a) + 1 - i]]

MutateArray(m, a) ==
    CASE m = "push" -> Append(a, Pushed)
      [] m = "pop" -> SubSeq(a, 1, Len(a) - 1)
      [] m = "reverse" -> Reverse(a)

\* The caller changes the array the last getAllTasks returned.  A change of
\* the array object this.tasks is a change of the mirror.
callerMutates(m) ==
    /\ last.op \in {"getAllTasks", "callerMutates"}
    /\ Len(MutateArray(m, last.rec.val)) <= MaxStored
    /\ LET held == [array |-> last.rec.array, val |-> MutateArray(m, last.rec.val)]
       IN  /\ last' = Last("callerMutates", 1, NoArgs, <<>>, TRUE, held, "notcalled")
           /\ IF held.array = "this.tasks"
              THEN tasks' = [tasks EXCEPT ![1] = held.val]
              ELSE UNCHANGED tasks
    /\ UNCHANGED <<localStorage, sessionStorage, fallbackToSession, nextId, clock, impl>>

\* One TaskManager on a working localStorage, and a caller of getAllTasks.
NextCopy ==
    \/ NextPrimaryUp
    \/ getAllTasksCall
    \/ \E m \in CallerMutations : callerMutates(m)

SpecCopy == Init /\ [][NextCopy]_vars

\* ------------------------------------------------------------ statistics
\* taskManager.getTaskStats() called by the application
getTaskStatsCall ==
    /\ last' = Last("getTaskStats", 1, NoArgs, <<>>, TRUE, getTaskStats(tasks[1]), "notcalled")
    /\ UNCHANGED <<localStorage, sessionStorage, fallbackToSession, tasks,
                   nextId, clock, impl>>

\* One TaskManager on a working localStorage, and a reader of the statistics.
NextStats ==
    \/ NextPrimaryUp
    \/ getTaskStatsCall

SpecStats == Init /\ [][NextStats]_vars

\* ------------------------------------------------------- sortTasksByDate
\* the comparator that ignores the order asked for
CompareDates_ascending(a, b, order) ==
    NewDate(a.createdAt)[2] - NewDate(b.createdAt)[2]

\* the comparator passed to sort: dateA - dateB for 'asc', dateB - dateA
\* for anything else
CompareDates(a, b, order) ==
    IF order = "asc"
    THEN NewDate(a.createdAt)[2] - NewDate(b.createdAt)[2]
    ELSE NewDate(b.createdAt)[2] - NewDate(a.createdAt)[2]

\* x put into the sorted sequence s behind every element that is not after
\* it.  Array.prototype.sort is stable (ECMAScript 2019).
RECURSIVE InsertSorted(_, _, _)
InsertSorted(x, s, order) ==
    IF s = <<>> THEN <<x>>
    ELSE IF CompareDates(Head(s), x, order) <= 0
         THEN <<Head(s)>> \o InsertSorted(x, Tail(s), order)
         ELSE <<x>> \o s

RECURSIVE SortBy(_, _)
SortBy(s, order) ==
    IF s = <<>> THEN <<>>
    ELSE InsertSorted(s[Len(s)], SortBy(SubSeq(s, 1, Len(s) - 1), order), order)

\* TaskManager.sortTasksByDate: [...tasks].sort(...).  The result is a new
\* array; input is the contents of the array passed in after the call.
sortTasksByDate(ts, order) ==
    [array |-> "copy", val |-> SortBy(ts, IF order = "omitted" THEN "desc" ELSE order),
     input |-> ts]

\* the collections passed in: tasks created at two instants
SortTimes == {1, 2}
SortIds == {<<"a">>, <<"b">>}
SortRecords == { Task(id, <<"a">>, <<>>, t) : id \in SortIds, t \in SortTimes }
SortInputs == UNION { [1..n -> SortRecords] : n \in 0..MaxSortLen }
SortOrders == {"asc", "desc", "omitted"}

\* taskManager.sortTasksByDate(tasks, order) called by the application
sortTasksByDateCall(ts, order) ==
    /\ last' = Last("sortTasksByDate", 1, <<ts, order>>, <<>>, TRUE,
                    sortTasksByDate(ts, order), "notcalled")
    /\ UNCHANGED <<localStorage, sessionStorage, fallbackToSession, tasks,
                   nextId, clock, impl>>

NextSort ==
    \E ts \in SortInputs, order \in SortOrders : sortTasksByDateCall(ts, order)

SpecSort == Init /\ [][NextSort]_vars

\* ------------------------------------------------------- the Task class
\* Task instances: built by the constructor, some of them completed
TaskTimes == {1, 2, 3}
TaskInstanceIds == { generateUUID(1), <<"a">> }
TaskInstanceTitles == { <<"a">>, <<"a", " ", "b">> }
TaskInstanceAuthors == { <<>>, <<"c">> }

ActiveTaskInstances ==
    { Task(id, bookTitle, author, now) :
        id \in TaskInstanceIds, bookTitle \in TaskInstanceTitles,
        author \in TaskInstanceAuthors, now \in TaskTimes }

TaskInstances ==
    ActiveTaskInstances
    \cup { Task_complete(task, now) : task \in ActiveTaskInstances, now \in TaskTimes }

\* Task.fromJSON(task.toJSON())
roundTripCall(task) ==
    /\ last' = Last("fromJSON(toJSON)", 1, <<task>>, task.id, TRUE,
                    Task_fromJSON(Task_toJSON(task)), "notcalled")
    /\ UNCHANGED <<localStorage, sessionStorage, fallbackToSession, tasks,
                   nextId, clock, impl>>

\* task.complete() at the time now: the method has no condition and no
\* throw, so it returns (ok = TRUE) with the Task as it is afterwards in rec
completeCall(task, now) ==
    /\ last' = Last("Task.complete", 1, <<task>>, task.id, TRUE,
                    Task_complete(task, now), "notcalled")
    /\ UNCHANGED <<localStorage, sessionStorage, fallbackToSession, tasks,
                   nextId, clock, impl>>

NextTask ==
    \/ \E task \in TaskInstances : roundTripCall(task)
    \/ \E task \in TaskInstances, now \in TaskTimes : completeCall(task, now)

SpecTask == Init /\ [][NextTask]_vars

\* ------------------------------------------------------- InputValidator
UpperCase == <<"A", "B", "C", "D", "E", "F", "G", "H", "I", "J", "K", "L", "M",
               "N", "O", "P", "Q", "R", "S", "T", "U", "V", "W", "X", "Y", "Z">>
LowerCase == <<"a", "b", "c", "d", "e", "f", "g", "h", "i", "j", "k", "l", "m",
               "n", "o", "p", "q", "r", "s", "t", "u", "v", "w", "x", "y", "z">>
Digits == {"0", "1", "2", "3", "4", "5", "6", "7", "8", "9"}

\* the character a case-insensitive pattern compares
Lower(c) ==
    IF \E i \in 1..Len(UpperCase) : UpperCase[i] = c
    THEN LowerCase[CHOOSE i \in 1..Len(UpperCase) : UpperCase[i] = c]
    ELSE c

Letters == { UpperCase[i] : i \in 1..Len(UpperCase) }
           \cup { LowerCase[i] : i \in 1..Len(LowerCase) }

\* \w
WordChars == Letters \cup Digits \cup {"_"}

\* the text lit (in lower case) stands at position i of s, whatever the case
MatchAt(s, i, lit) ==
    /\ i >= 1
    /\ i + Len(lit) - 1 <= Len(s)
    /\ \A k \in 1..Len(lit) : Lower(s[i + k - 1]) = lit[k]

\* index of the first occurrence of lit at or after position i, 0 if none
RECURSIVE FindLiteral(_, _, _)
FindLiteral(s, i, lit) ==
    IF i + Len(lit) - 1 > Len(s) THEN 0
    ELSE IF MatchAt(s, i, lit) THEN i ELSE FindLiteral(s, i + 1, lit)

\* index of the last character of the longest run of characters of the set
\* that starts at position i (i - 1 when the run is empty)
RECURSIVE RunEnd(_, _, _)
RunEnd(s, i, set) ==
    IF i > Len(s) \/ s[i] \notin set THEN i - 1 ELSE RunEnd(s, i + 1, set)

\* \b after position i - 1, where a word character stands
WordEndsBefore(s, i) == i > Len(s) \/ s[i] \notin WordChars

\* \b before position i, where a word character stands
WordStartsAt(s, i) == i = 1 \/ s[i - 1] \notin WordChars

\* this.xssPatterns, in the order of the array.  kind "element" is
\* /<name\b[^<]*(?:(?!<\/name>)<[^<]*)*<\/name>/gi, "tag" is /<name\b[^>]*>/gi,
\* "literal" is the text itself, "handler" is /on\w+\s*=/gi
xssPatterns ==
    << [kind |-> "element", text |-> <<"s", "c", "r", "i", "p", "t">>],
       [kind |-> "element", text |-> <<"i", "f", "r", "a", "m", "e">>],
       [kind |-> "element", text |-> <<"o", "b", "j", "e", "c", "t">>],
       [kind |-> "element", text |-> <<"e", "m", "b", "e", "d">>],
       [kind |-> "tag", text |-> <<"l", "i", "n", "k">>],
       [kind |-> "tag", text |-> <<"m", "e", "t", "a">>],
       [kind |-> "literal",
        text |-> <<"j", "a", "v", "a", "s", "c", "r", "i", "p", "t", ":">>],
       [kind |-> "literal", text |-> <<"v", "b", "s", "c", "r", "i", "p", "t", ":">>],
       [kind |-> "literal",
        text |-> <<"d", "a", "t", "a", ":", "t", "e", "x", "t", "/", "h", "t", "m", "l">>],
       [kind |-> "handler", text |-> <<"o", "n">>] >>

\* index of the last character of the match of the pattern that starts at
\* position i, 0 when the pattern does not match there
MatchEnd(s, i, p) ==
    CASE p.kind = "literal" ->
            IF MatchAt(s, i, p.text) THEN i + Len(p.text) - 1 ELSE 0
      [] p.kind = "handler" ->
            \* on, the longest run of word characters (one at least), blanks, '='
            IF ~MatchAt(s, i, p.text) THEN 0
            ELSE LET w == RunEnd(s, i + 2, WordChars)
                     b == RunEnd(s, w + 1, WhiteSpace)
                 IN  IF w >= i + 2 /\ b + 1 <= Len(s) /\ s[b + 1] = "="
                     THEN b + 1 ELSE 0
      [] p.kind = "tag" ->
            \* from '<name' to the first '>'
            LET open == <<"<">> \o p.text
            IN  IF MatchAt(s, i, open) /\ WordEndsBefore(s, i + Len(open))
                THEN FindGt(s, i + Len(open))
                ELSE 0
      [] p.kind = "element" ->
            \* from '<name' to the end of the first '</name>'
            LET open == <<"<">> \o p.text
                close == <<"<", "/">> \o p.text \o <<">">>
            IN  IF MatchAt(s, i, open) /\ WordEndsBefore(s, i + Len(open))
                THEN LET j == FindLiteral(s, i + Len(open), close)
                     IN  IF j = 0 THEN 0 ELSE j + Len(close) - 1
                ELSE 0

\* s.replace(pattern, '') for a pattern with the g flag, from position i on
RECURSIVE RemovePatternFrom(_, _, _)
RemovePatternFrom(s, i, p) ==
    IF i > Len(s) THEN <<>>
    ELSE IF MatchEnd(s, i, p) > 0
         THEN RemovePatternFrom(s, MatchEnd(s, i, p) + 1, p)
         ELSE <<s[i]>> \o RemovePatternFrom(s, i + 1, p)

RemovePattern(s, p) ==
    IF \A i \in 1..Len(s) : MatchEnd(s, i, p) = 0 THEN s
    ELSE RemovePatternFrom(s, 1, p)

\* for (const pattern of this.xssPatterns) sanitized = sanitized.replace(pattern, '')
\* from the k-th pattern on
RECURSIVE RemovePatterns(_, _)
RemovePatterns(s, k) ==
    IF k > Len(xssPatterns) THEN s
    ELSE Then(RemovePattern(s, xssPatterns[k]), LAMBDA r : RemovePatterns(r, k + 1))

\* InputValidator.escapeHtml: div.textContent = text; return div.innerHTML.
\* The serialisation of a text node replaces '&', '<' and '>'.
escapeHtmlChar(c) ==
    CASE c = "&" -> <<"&", "a", "m", "p", ";">>
      [] c = "<" -> <<"&", "l", "t", ";">>
      [] c = ">" -> <<"&", "g", "t", ";">>
      [] OTHER -> <<c>>

RECURSIVE escapeHtml(_)
escapeHtml(text) ==
    IF \A i \in 1..Len(text) : text[i] \notin {"&", "<", ">"} THEN text
    ELSE escapeHtmlChar(Head(text)) \o escapeHtml(Tail(text))

\* InputValidator.sanitizeInput
InputValidator_sanitizeInput(input) ==
    IF ~input.isString THEN <<>>
    ELSE LET trimmed == trim(input.val)
             escaped == Then(trimmed, escapeHtml)
             noControl == Then(escaped, RemoveControl)
             collapsed == Then(noControl, CollapseSpaces)
         IN  Then(collapsed, LAMBDA s : RemovePatterns(s, 1))

\* The texts passed to sanitizeInput: up to MaxPieces pieces, one after the
\* other.  The pieces hold the characters the two sanitizers rewrite, blanks,
\* a control character, and halves of the patterns sanitizeInput removes.
SanitizePieces ==
    { <<"a">>, <<" ">>, <<"^A">>, <<"&">>, <<"<">>, <<"'">>,
      <<"j", "a", "v", "a">>, <<"s", "c", "r", "i", "p", "t", ":">>,
      <<"J", "a", "v", "a", "S", "c", "r", "i", "p", "t", ":">>,
      <<"v", "b">>, <<"o", "n">>, <<"x", "=">>,
      <<"<", "s", "c", "r", "i", "p", "t", ">">>,
      <<"<", "/", "s", "c", "r", "i", "p", "t", ">", "T">> }

RECURSIVE Concat(_)
Concat(pieces) ==
    IF pieces = <<>> THEN <<>> ELSE Head(pieces) \o Concat(Tail(pieces))

SanitizeInputs ==
    { Str(Concat(pieces)) :
        pieces \in UNION { [1..n -> SanitizePieces] : n \in 0..MaxPieces } }
    \cup { NotAString }

\* an argument is at hand, no sanitizer has run
InitSanitize ==
    /\ localStorage = <<>>
    /\ sessionStorage = [tm \in TMs |-> <<>>]
    /\ fallbackToSession = [tm \in TMs |-> FALSE]
    /\ tasks = [tm \in TMs |-> <<>>]
    /\ nextId = 1
    /\ clock = 0
    /\ impl = "patch"
    /\ \E input \in SanitizeInputs :
          last = Last("input", 1, <<input>>, <<>>, TRUE, NoTask, "notcalled")

\* validator.sanitizeInput(input), and the same call on what it returned
InputValidator_sanitizeInputCall ==
    /\ last.op = "input"
    /\ LET once == InputValidator_sanitizeInput(last.args[1])
           twice == InputValidator_sanitizeInput(Str(once))
       IN  last' = Last("InputValidator.sanitizeInput", 1, last.args, <<>>, TRUE,
                        [once |-> once, twice |-> twice], "notcalled")
    /\ UNCHANGED <<localStorage, sessionStorage, fallbackToSession, tasks,
                   nextId, clock, impl>>

\* TaskValidator.sanitizeInput(input), and the same call on what it returned
TaskValidator_sanitizeInputCall ==
    /\ last.op = "input"
    /\ LET once == TaskValidator_sanitizeInput(last.args[1])
           twice == TaskValidator_sanitizeInput(Str(once))
       IN  last' = Last("TaskValidator.sanitizeInput", 1, last.args, <<>>, TRUE,
                        [once |-> once, twice |-> twice], "notcalled")
    /\ UNCHANGED <<localStorage, sessionStorage, fallbackToSession, tasks,
                   nextId, clock, impl>>

NextSanitize ==
    \/ InputValidator_sanitizeInputCall
    \/ TaskValidator_sanitizeInputCall

SpecSanitize == InitSanitize /\ [][NextSanitize]_vars

\* a value that is not a string and is truthy (the number 5); NotAString
\* stands for null and undefined
ANumber == [isString |-> FALSE, val |-> <<"5">>]

\* !value
Falsy(value) == value.val = <<>>

\* this.validationRules
validationRules ==
    [bookTitle |-> [required |-> TRUE, minLength |-> 1, maxLength |-> 100,
                    sanitize |-> TRUE],
     author |-> [required |-> FALSE, minLength |-> 0, maxLength |-> 50,
                 sanitize |-> TRUE]]

\* a property name that every object inherits from Object.prototype:
\* this.validationRules[name] and this.allowedPatterns[name] are functions
InheritedNames == {"toString"}

\* a Japanese character (hiragana A)
Kana == "u3042"

\* this.allowedPatterns: the characters of the class between ^[ and ]+$
allowedPatterns ==
    [bookTitle |-> Letters \cup Digits \cup WhiteSpace \cup {Kana}
                   \cup {"-", ".", ",", "!", "?", ":", ";", "(", ")", "[", "]", "{", "}"},
     author |-> Letters \cup Digits \cup WhiteSpace \cup {Kana} \cup {"-", ".", ","}]

\* InputValidator.containsXSS on a validator whose patterns have lastIndex 0
containsXSS(input) ==
    \E k \in 1..Len(xssPatterns) : RemovePattern(input, xssPatterns[k]) # input

\* the patterns /\bname\s*c/gi of containsSuspiciousContent
suspiciousCalls ==
    << <<(<<"e", "v", "a", "l">>), "(">>,
       <<(<<"f", "u", "n", "c", "t", "i", "o", "n">>), "(">>,
       <<(<<"s", "e", "t", "t", "i", "m", "e", "o", "u", "t">>), "(">>,
       <<(<<"s", "e", "t", "i", "n", "t", "e", "r", "v", "a", "l">>), "(">>,
       <<(<<"d", "o", "c", "u", "m", "e", "n", "t">>), ".">>,
       <<(<<"w", "i", "n", "d", "o", "w">>), ".">>,
       <<(<<"a", "l", "e", "r", "t">>), "(">>,
       <<(<<"c", "o", "n", "f", "i", "r", "m">>), "(">>,
       <<(<<"p", "r", "o", "m", "p", "t">>), "(">>  >>

\* /\bname\s*c/ matches at position i
CallAt(s, i, name, c) ==
    /\ WordStartsAt(s, i)
    /\ MatchAt(s, i, name)
    /\ LET b == RunEnd(s, i + Len(name), WhiteSpace)
       IN  b + 1 <= Len(s) /\ s[b + 1] = c

\* /<\s*\/?\s*[a-z]/i matches at position i
MarkupAt(s, i) ==
    /\ s[i] = "<"
    /\ LET b == RunEnd(s, i + 1, WhiteSpace)
           c == IF b + 1 <= Len(s) /\ s[b + 1] = "/" THEN b + 1 ELSE b
           d == RunEnd(s, c + 1, WhiteSpace)
       IN  \/ d + 1 <= Len(s) /\ s[d + 1] \in Letters
           \/ b + 1 <= Len(s) /\ s[b + 1] \in Letters

\* /open.*close/ matches somewhere ('.' is any character but a line end)
Template(s, open, close) ==
    \E i \in 1..Len(s) :
        /\ MatchAt(s, i, open)
        /\ \E j \in (i + Len(open))..Len(s) :
              /\ MatchAt(s, j, close)
              /\ \A k \in (i + Len(open))..(j - 1) : s[k] # "\n"

\* InputValidator.containsSuspiciousContent
containsSuspiciousContent(input) ==
    \/ \E k \in 1..Len(suspiciousCalls), i \in 1..Len(input) :
          CallAt(input, i, suspiciousCalls[k][1], suspiciousCalls[k][2])
    \/ \E i \in 1..Len(input) : MarkupAt(input, i)
    \/ Template(input, <<"{", "{">>, <<"}", "}">>)
    \/ Template(input, <<"$", "{">>, <<"}">>)
    \/ Template(input, <<"<", "%">>, <<"%", ">">>)

\* InputValidator.isEmpty of a string
isEmpty(value) == value = <<>> \/ Len(trim(value)) = 0

\* what validateField returns; thrown: it raised an exception instead
FieldResult(isValid, sanitizedValue, errors) ==
    [thrown |-> FALSE, isValid |-> isValid, sanitizedValue |-> sanitizedValue,
     errors |-> errors]

Thrown == [thrown |-> TRUE]

\* the checks of validateField on a sanitized value that is not empty
FieldErrors(fieldName, rule, sanitizedValue) ==
    (IF Len(sanitizedValue) < rule.minLength THEN << <<fieldName, "minLength">> >> ELSE <<>>)
    \o (IF Len(sanitizedValue) > rule.maxLength
        THEN << <<fieldName, "maxLength">> >> ELSE <<>>)
    \o (IF \E i \in 1..Len(sanitizedValue) :
               sanitizedValue[i] \notin allowedPatterns[fieldName]
        THEN << <<fieldName, "invalidCharacters">> >> ELSE <<>>)
    \o (IF containsXSS(sanitizedValue) THEN << <<fieldName, "xss">> >> ELSE <<>>)
    \o (IF containsSuspiciousContent(sanitizedValue)
        THEN << <<fieldName, "suspicious">> >> ELSE <<>>)

\* validateField from the required check on, for a field that has a rule
CheckField(fieldName, rule, sanitizedValue) ==
    LET errors ==
            (IF rule.required /\ isEmpty(sanitizedValue)
             THEN << <<fieldName, "required">> >> ELSE <<>>)
            \o (IF ~isEmpty(sanitizedValue)
                THEN FieldErrors(fieldName, rule, sanitizedValue) ELSE <<>>)
    IN  FieldResult(errors = <<>>, Str(sanitizedValue), errors)

\* InputValidator.validateField
validateField(fieldName, value) ==
    IF fieldName \in InheritedNames
    THEN \* the rule is a function object: no sanitize, not required; isEmpty
         \* calls value.trim(), and allowedPattern.test is not a function
         IF Falsy(value) THEN FieldResult(TRUE, value, <<>>)
         ELSE IF ~value.isString THEN Thrown
         ELSE IF Len(trim(value.val)) = 0 THEN FieldResult(TRUE, value, <<>>)
         ELSE Thrown
    ELSE IF fieldName \notin DOMAIN validationRules
    THEN FieldResult(TRUE, value, <<>>)
    ELSE Then(InputValidator_sanitizeInput(value),
              LAMBDA sanitizedValue :
                 CheckField(fieldName, validationRules[fieldName], sanitizedValue))

\* errors.push(...fieldResult.errors) for the results from the k-th on
RECURSIVE FormErrors(_, _)
FormErrors(results, k) ==
    IF k > Len(results) THEN <<>>
    ELSE (IF results[k].isValid THEN <<>> ELSE results[k].errors)
         \o FormErrors(results, k + 1)

\* a form data object: its entries in the order of Object.entries
FormData(entries) == [isObject |-> TRUE, entries |-> entries]

\* null and undefined passed as form data
NoFormData == [isObject |-> FALSE, entries |-> <<>>]

\* what validateForm returns for the entries and the results of their fields
FormResult(entries, results) ==
    IF \E k \in 1..Len(entries) : results[k].thrown THEN Thrown
    ELSE LET valid == { k \in 1..Len(entries) : results[k].isValid }
             errors == FormErrors(results, 1)
         IN  [thrown |-> FALSE,
              isValid |-> errors = <<>>,
              errors |-> errors,
              fieldErrors |->
                  [name \in { entries[k][1] : k \in 1..Len(entries) \ valid } |->
                      results[CHOOSE k \in 1..Len(entries) : entries[k][1] = name].errors],
              sanitizedData |->
                  [name \in { entries[k][1] : k \in valid } |->
                      results[CHOOSE k \in 1..Len(entries) :
                                 entries[k][1] = name].sanitizedValue]]

\* InputValidator.validateForm: Object.entries(formData) throws a TypeError
\* for null and undefined; the fields validated are the entries of the object
validateForm(formData) ==
    IF ~formData.isObject THEN Thrown
    ELSE Then([k \in 1..Len(formData.entries) |->
                  validateField(formData.entries[k][1], formData.entries[k][2])],
              LAMBDA results : FormResult(formData.entries, results))

\* the values of a field: empty, blank, plain, with blanks to collapse, a
\* control character only, Japanese, at and over the two limits, escaped to
\* more than the limit, removed patterns, script calls, not a string
FieldValues ==
    { Str(<<>>), Str(<<" ">>), Str(<<"a">>), Str(<<" ", "a", " ", " ", "b", " ">>),
      Str(<<"^A">>), Str(<<Kana>>),
      Str(Rep("a", 50)), Str(Rep("a", 51)), Str(Rep("a", 100)), Str(Rep("a", 101)),
      Str(Rep("&", 21)), Str(<<"a", "&", "b">>),
      Str(<<"j", "a", "v", "a", "s", "c", "r", "i", "p", "t", ":", "a">>),
      Str(<<"j", "a", "v", "a", "J", "a", "v", "a", "S", "c", "r", "i", "p", "t", ":",
            "s", "c", "r", "i", "p", "t", ":">>),
      Str(<<"o", "n", "x", "=">>),
      Str(<<"e", "v", "a", "l", " ", "(", "a", ")">>),
      Str(<<"{", "{", "a", "}", "}">>),
      NotAString, ANumber }

FieldNames == {"bookTitle", "author", "note"} \cup InheritedNames

\* the form data objects: bookTitle and author, each present or not, and an
\* object with one more property
Forms ==
    { FormData(<< <<"bookTitle", t>>, <<"author", a>> >>) : t \in FieldValues, a \in FieldValues }
    \cup { FormData(<< <<"bookTitle", t>> >>) : t \in FieldValues }
    \cup { FormData(<< <<"author", a>> >>) : a \in FieldValues }
    \cup { FormData(<< <<"bookTitle", Str(<<"a">>)>>, <<name, v>> >>) :
             name \in {"note"} \cup InheritedNames, v \in {Str(<<"a">>), NotAString, ANumber} }
    \cup { FormData(<<>>), NoFormData }

\* the arguments of a call are at hand, no validation has run
InitValidate ==
    /\ localStorage = <<>>
    /\ sessionStorage = [tm \in TMs |-> <<>>]
    /\ fallbackToSession = [tm \in TMs |-> FALSE]
    /\ tasks = [tm \in TMs |-> <<>>]
    /\ nextId = 1
    /\ clock = 0
    /\ impl = "patch"
    /\ \/ \E formData \in Forms :
             last = Last("formData", 1, <<formData>>, <<>>, TRUE, NoTask, "notcalled")
       \/ \E fieldName \in FieldNames, value \in FieldValues :
             last = Last("field", 1, <<fieldName, value>>, <<>>, TRUE, NoTask, "notcalled")

\* new InputValidator().validateForm(formData); ok: it returned
validateFormCall ==
    /\ last.op = "formData"
    /\ LET result == validateForm(last.args[1])
       IN  last' = Last("validateForm", 1, last.args, <<>>, ~result.thrown, result,
                        "notcalled")
    /\ UNCHANGED <<localStorage, sessionStorage, fallbackToSession, tasks,
                   nextId, clock, impl>>

\* new InputValidator().validateField(fieldName, value); ok: it returned
validateFieldCall ==
    /\ last.op = "field"
    /\ LET result == validateField(last.args[1], last.args[2])
       IN  last' = Last("validateField", 1, last.args, <<>>, ~result.thrown, result,
                        "notcalled")
    /\ UNCHANGED <<localStorage, sessionStorage, fallbackToSession, tasks,
                   nextId, clock, impl>>

NextValidate ==
    \/ validateFormCall
    \/ validateFieldCall

SpecValidate == InitValidate /\ [][NextValidate]_vars

\* The callers of the registry and of the validator: a TaskManager under every
\* storage environment, and validator calls on the arguments at hand.
InitFailures == Init \/ InitValidate

NextFailures == Next \/ NextValidate

SpecFailures == InitFailures /\ [][NextFailures]_vars

\* --------------------------------------------------------- ShareManager
\* Strings are sequences of UTF-16 code units, as String.prototype.length
\* counts them: Kana stands for any character of the Basic Multilingual
\* Plane outside ASCII, an emoji is a high and a low surrogate.
Ja(n) == Rep(Kana, n)
Emoji == <<"hi", "lo">>

\* ShareManager.sanitizeForShare
sanitizeForShare(text) ==
    IF ~text.isString THEN <<>>
    ELSE LET trimmed == trim(text.val)
             noControl == Then(trimmed, RemoveControl)
             \* script elements, javascript:, vbscript:, data:text/html, on...=
             p1 == Then(noControl, LAMBDA s : RemovePattern(s, xssPatterns[1]))
             p2 == Then(p1, LAMBDA s : RemovePattern(s, xssPatterns[7]))
             p3 == Then(p2, LAMBDA s : RemovePattern(s, xssPatterns[8]))
             p4 == Then(p3, LAMBDA s : RemovePattern(s, xssPatterns[9]))
             p5 == Then(p4, LAMBDA s : RemovePattern(s, xssPatterns[10]))
             collapsed == Then(p5, CollapseSpaces)
         IN  Then(collapsed, LAMBDA s : ReplaceChar(s, "\r", <<"\n">>))

\* s.substring(0, n)
Substring0(s, n) ==
    SubSeq(s, 1, IF n < 0 THEN 0 ELSE IF n > Len(s) THEN Len(s) ELSE n)

\* the text the two generators of src/js/share-manager.js put together from
\* the head, the closing bracket and the tail of their templates and the
\* sanitized title and author
BuildText(head, tail, sanitizedTitle, sanitizedAuthor) ==
    LET close == <<Kana>>
        label == <<"\n", Kana, Kana, ":", " ">>
        withAuthor ==
            head \o sanitizedTitle \o close
            \o (IF sanitizedAuthor # <<>> /\ trim(sanitizedAuthor) # <<>>
                THEN label \o sanitizedAuthor ELSE <<>>)
            \o tail
        baseText == head \o sanitizedTitle \o close \o tail
        availableLength == maxTweetLength - Len(head \o close \o tail)
        truncatedTitle == Substring0(sanitizedTitle, availableLength - 3) \o <<".", ".", ".">>
    IN  IF Len(withAuthor) > maxTweetLength
        THEN IF Len(baseText) > maxTweetLength
             THEN head \o truncatedTitle \o close \o tail
             ELSE baseText
        ELSE withAuthor

GenerateText(head, tail, bookTitle, author) ==
    Then(sanitizeForShare(bookTitle),
         LAMBDA sanitizedTitle :
            Then(IF Falsy(author) THEN <<>> ELSE sanitizeForShare(author),
                 LAMBDA sanitizedAuthor :
                    BuildText(head, tail, sanitizedTitle, sanitizedAuthor)))

\* ShareManager.generateDeclarationText of src/js/share-manager.js
generateDeclarationText(bookTitle, author) ==
    GenerateText(<<"#", " ">> \o Ja(4) \o <<"\n", "\n", Kana>>,
                 <<"\n", "\n">> \o Ja(5) \o Emoji,
                 bookTitle, author)

\* ShareManager.generateCompletionText of src/js/share-manager.js
generateCompletionText(bookTitle, author) ==
    GenerateText(Emoji \o <<" ">> \o Ja(4) \o <<"\n", "\n", Kana>>,
                 <<"\n", "\n">> \o Ja(10) \o <<"\n", "\n", "#">> \o Ja(4),
                 bookTitle, author)

\* `${value}`
TemplateString(value) ==
    IF value.isString THEN value.val
    ELSE IF Falsy(value) THEN <<"n", "u", "l", "l">> ELSE value.val

\* the text put together by the two generators of src/unnamed/part_005; margin
\* is what they keep free of the limit for the title (50 and 70)
GenerateText_earlier(head, tail, margin, bookTitle, author) ==
    LET by == IF ~Falsy(author) /\ trim(author.val) # <<>>
              THEN <<" ", "b", "y", " ">> \o trim(author.val) ELSE <<>>
        close == <<Kana>>
        text == head \o TemplateString(bookTitle) \o close \o by \o tail
        maxTitleLength == maxTweetLength - margin
        truncatedTitle ==
            IF Len(bookTitle.val) > maxTitleLength
            THEN Substring0(bookTitle.val, maxTitleLength) \o <<".", ".", ".">>
            ELSE TemplateString(bookTitle)
    IN  IF Len(text) > maxTweetLength
        THEN head \o truncatedTitle \o close \o by \o tail
        ELSE text

\* bookTitle.length of a title that is null or undefined, read when the first
\* text is over the limit: a TypeError
GenerateThrows_earlier(head, tail, bookTitle, author) ==
    LET by == IF ~Falsy(author) /\ trim(author.val) # <<>>
              THEN <<" ", "b", "y", " ">> \o trim(author.val) ELSE <<>>
    IN  /\ ~bookTitle.isString
        /\ Len(head \o TemplateString(bookTitle) \o <<Kana>> \o by \o tail) > maxTweetLength

\* ShareManager.generateDeclarationText of src/unnamed/part_005
generateDeclarationText_earlier(bookTitle, author) ==
    GenerateText_earlier(<<"#", " ">> \o Ja(4) \o <<"\n", "\n", Kana>>,
                         <<"\n", "\n">> \o Ja(7) \o Emoji,
                         50, bookTitle, author)

\* ShareManager.generateCompletionText of src/unnamed/part_005
generateCompletionText_earlier(bookTitle, author) ==
    GenerateText_earlier(Emoji \o <<" ">> \o Ja(4) \o <<"\n", "\n", Kana>>,
                         <<"\n", "\n">> \o Ja(10) \o <<"\n", "\n", "#">> \o Ja(2)
                            \o <<" ", "#">> \o Ja(4),
                         70, bookTitle, author)

\* the characters encodeURIComponent leaves as they are
Unreserved == Letters \cup Digits \cup {"-", "_", ".", "!", "~", "*", "'", "(", ")"}

\* a surrogate without its other half: encodeURIComponent throws a URIError
LoneSurrogate(text) ==
    \E i \in 1..Len(text) :
        \/ text[i] = "hi" /\ (i = Len(text) \/ text[i + 1] # "lo")
        \/ text[i] = "lo" /\ (i = 1 \/ text[i - 1] # "hi")

\* encodeURIComponent(text).length: one unit for an unreserved character,
\* %XX for another ASCII character, three %XX for a character of the Basic
\* Multilingual Plane, four %XX for a pair of surrogates
EncodedLength(text) ==
    LET units(set) == Cardinality({ i \in 1..Len(text) : text[i] \in set })
        ascii == { i \in 1..Len(text) : text[i] \notin {Kana, "hi", "lo"} }
        plain == { i \in ascii : text[i] \in Unreserved }
    IN  Cardinality(plain) + 3 * Cardinality(ascii \ plain)
        + 9 * units({Kana}) + 6 * units({"hi", "lo"})

\* 'https://x.com/intent/post?text='.length
ShareUrlPrefixLength == Len(<<"h", "t", "t", "p", "s", ":", "/", "/", "x", ".", "c", "o", "m",
                              "/", "i", "n", "t", "e", "n", "t", "/", "p", "o", "s", "t",
                              "?", "t", "e", "x", "t", "=">>)

\* ShareManager.generateShareUrl of src/js/share-manager.js: "url" when it
\* returns the URL, else the error it throws
generateShareUrl(text) ==
    IF text = <<>> THEN "invalidText"
    ELSE IF Len(text) > maxTweetLength THEN "textTooLong"
    ELSE IF LoneSurrogate(text) THEN "malformed"
    ELSE IF ShareUrlPrefixLength + EncodedLength(text) > 2048 THEN "urlTooLong"
    ELSE "url"

\* ShareManager.generateShareUrl of src/unnamed/part_005: the URL, or null
generateShareUrl_earlier(text) ==
    IF LoneSurrogate(text) THEN "null" ELSE "url"

\* the titles and authors passed to the generators: of a task (up to 100 and
\* 50 characters), longer than any task's, around the lengths the generators
\* cut at, Japanese, with an emoji at the cut, with a removed pattern, absent
ShareTitles ==
    { Str(<<"a">>), Str(<<" ", "a", " ", " ", "b">>), Str(Ja(MaxTitleLength)),
      Str(Rep("a", 261)), Str(Rep("a", 262)), Str(Rep("a", 300)), Str(Ja(300)),
      Str(Rep("a", 257) \o Emoji \o Rep("a", 10)),
      Str(<<"j", "a", "v", "a", "s", "c", "r", "i", "p", "t", ":", "a">>),
      NotAString }

ShareAuthors ==
    { Str(<<>>), Str(<<" ">>), Str(<<"b">>), Str(Ja(MaxAuthorLength)),
      Str(Rep("b", 200)), Str(Rep("b", 300)), NotAString }

\* a title and an author are at hand, no text has been generated
InitShare ==
    /\ localStorage = <<>>
    /\ sessionStorage = [tm \in TMs |-> <<>>]
    /\ fallbackToSession = [tm \in TMs |-> FALSE]
    /\ tasks = [tm \in TMs |-> <<>>]
    /\ nextId = 1
    /\ clock = 0
    /\ impl = "patch"
    /\ \E bookTitle \in ShareTitles, author \in ShareAuthors :
          last = Last("share", 1, <<bookTitle, author>>, <<>>, TRUE, NoTask, "notcalled")

\* a generator has run and its text is handed to generateShareUrl
ShareCall(op, file, text, url) ==
    /\ last.op = "share"
    /\ last' = Last(op, 1, last.args, <<>>, TRUE,
                    [file |-> file, text |-> text, url |-> url], "notcalled")
    /\ UNCHANGED <<localStorage, sessionStorage, fallbackToSession, tasks,
                   nextId, clock, impl>>

generateDeclarationTextCall ==
    LET text == generateDeclarationText(last.args[1], last.args[2])
    IN  ShareCall("generateDeclarationText", "src/js/share-manager.js", text,
                  generateShareUrl(text))

generateCompletionTextCall ==
    LET text == generateCompletionText(last.args[1], last.args[2])
    IN  ShareCall("generateCompletionText", "src/js/share-manager.js", text,
                  generateShareUrl(text))

\* the generators of src/unnamed/part_005; "thrown": no text was returned
generateDeclarationText_earlierCall ==
    LET text == generateDeclarationText_earlier(last.args[1], last.args[2])
    IN  IF GenerateThrows_earlier(<<"#", " ">> \o Ja(4) \o <<"\n", "\n", Kana>>,
                                  <<"\n", "\n">> \o Ja(7) \o Emoji,
                                  last.args[1], last.args[2])
        THEN ShareCall("generateDeclarationText", "src/unnamed/part_005", <<>>, "thrown")
        ELSE ShareCall("generateDeclarationText", "src/unnamed/part_005", text,
                       generateShareUrl_earlier(text))

generateCompletionText_earlierCall ==
    LET text == generateCompletionText_earlier(last.args[1], last.args[2])
    IN  IF GenerateThrows_earlier(Emoji \o <<" ">> \o Ja(4) \o <<"\n", "\n", Kana>>,
                                  <<"\n", "\n">> \o Ja(10) \o <<"\n", "\n", "#">> \o Ja(2)
                                     \o <<" ", "#">> \o Ja(4),
                                  last.args[1], last.args[2])
        THEN ShareCall("generateCompletionText", "src/unnamed/part_005", <<>>, "thrown")
        ELSE ShareCall("generateCompletionText", "src/unnamed/part_005", text,
                       generateShareUrl_earlier(text))

NextShare ==
    \/ generateDeclarationTextCall
    \/ generateCompletionTextCall
    \/ generateDeclarationText_earlierCall
    \/ generateCompletionText_earlierCall

SpecShare == InitShare /\ [][NextShare]_vars

\* validateField on the two fields of the form, with the texts of
\* SanitizeInputs as values
InitNormalize ==
    /\ localStorage = <<>>
    /\ sessionStorage = [tm \in TMs |-> <<>>]
    /\ fallbackToSession = [tm \in TMs |-> FALSE]
    /\ tasks = [tm \in TMs |-> <<>>]
    /\ nextId = 1
    /\ clock = 0
    /\ impl = "patch"
    /\ \E fieldName \in DOMAIN validationRules, value \in SanitizeInputs :
          last = Last("field", 1, <<fieldName, value>>, <<>>, TRUE, NoTask, "notcalled")

NextNormalize == validateFieldCall

SpecNormalize == InitNormalize /\ [][NextNormalize]_vars

\* the characters a spreadsheet takes as the start of a formula: /^[=+\-@]/
FormulaStarts == {"=", "+", "-", "@"}

\* the rest of sanitizeForCsv, without the guard character
CsvField_unguarded(sanitized) ==
    LET doubled == ReplaceChar(sanitized, "\"", <<"\"", "\"">>)
    IN  IF \E i \in 1..Len(doubled) : doubled[i] \in {",", "\n", "\""}
        THEN <<"\"">> \o doubled \o <<"\"">>
        ELSE doubled

\* sanitizeForCsv after sanitizeInput: the guard character, the doubled
\* quotes, the quotes around the field
CsvField(sanitized) ==
    LET guarded == IF sanitized # <<>> /\ sanitized[1] \in FormulaStarts
                   THEN <<"'">> \o sanitized ELSE sanitized
        doubled == ReplaceChar(guarded, "\"", <<"\"", "\"">>)
    IN  IF \E i \in 1..Len(doubled) : doubled[i] \in {",", "\n", "\""}
        THEN <<"\"">> \o doubled \o <<"\"">>
        ELSE doubled

\* InputValidator.sanitizeForCsv
sanitizeForCsv(input) ==
    IF ~input.isString THEN <<>>
    ELSE Then(InputValidator_sanitizeInput(input), CsvField)

\* the texts passed to sanitizeForCsv: up to MaxPieces pieces
CsvPieces ==
    { <<"=">>, <<"+">>, <<"-">>, <<"@">>, <<"a">>, <<" ">>, <<",">>, <<"\"">>,
      <<"^A">>, <<"o", "n", "x", "=">> }

CsvInputs ==
    { Str(Concat(pieces)) :
        pieces \in UNION { [1..n -> CsvPieces] : n \in 0..MaxPieces } }
    \cup { NotAString }

InitCsv ==
    /\ localStorage = <<>>
    /\ sessionStorage = [tm \in TMs |-> <<>>]
    /\ fallbackToSession = [tm \in TMs |-> FALSE]
    /\ tasks = [tm \in TMs |-> <<>>]
    /\ nextId = 1
    /\ clock = 0
    /\ impl = "patch"
    /\ \E input \in CsvInputs :
          last = Last("input", 1, <<input>>, <<>>, TRUE, NoTask, "notcalled")

\* new InputValidator().sanitizeForCsv(input)
sanitizeForCsvCall ==
    /\ last.op = "input"
    /\ last' = Last("sanitizeForCsv", 1, last.args, <<>>, TRUE,
                    sanitizeForCsv(last.args[1]), "notcalled")
    /\ UNCHANGED <<localStorage, sessionStorage, fallbackToSession, tasks,
                   nextId, clock, impl>>

NextCsv == sanitizeForCsvCall

SpecCsv == InitCsv /\ [][NextCsv]_vars

\* --------------------------------------------------- ReadingDeclarationApp
\* The application object of src/run-tests.js with the TaskManager of
\* src/js/task-manager.js.  A handler runs without interruption up to its
\* await; the steps of that synchronous part are taken one after the other
\* and nothing else runs between them.

\* what a TaskManager call did: ret is the record it returned (NoTask for
\* null), tasks is this.tasks after it, sm is the StorageManager after it
Outcome(ret, ts, sm, saved) ==
    [ret |-> ret, tasks |-> ts, sm |-> sm, saved |-> saved]

\* TaskManager.addTask of src/js/task-manager.js on this.tasks = ts
TaskManager_addTask(ts, sm, bookTitle, author, env) ==
    LET prepared == prepareTaskData(bookTitle, author)
    IN  IF ~prepared.isValid THEN Outcome(NoTask, ts, sm, "notcalled")
        ELSE LET task == Task(generateUUID(nextId), prepared.data.bookTitle,
                              prepared.data.author, clock + 1)
                 pushed == Append(ts, task)
                 saved == SM_saveTask(sm, env, task)
             IN  IF ~saved.ret
                 THEN Outcome(NoTask, addTask_js_rollback(pushed, task.id),
                              saved.sm, "false")
                 ELSE Outcome(task, pushed, saved.sm, "true")

\* completeTask that completes a completed record once more
TaskManager_completeTask_rejects_unknownOnly(ts, taskIndex) ==
    taskIndex = 0

\* the two throws at the head of completeTask of src/js/task-manager.js
TaskManager_completeTask_rejects(ts, taskIndex) ==
    taskIndex = 0 \/ ts[taskIndex].status = "completed"

\* TaskManager.completeTask of src/js/task-manager.js on this.tasks = ts
TaskManager_completeTask(ts, sm, taskId, env) ==
    LET taskIndex == findIndex(ts, taskId)
    IN  IF TaskManager_completeTask_rejects(ts, taskIndex)
        THEN Outcome(NoTask, ts, sm, "notcalled")
        ELSE LET taskData == ts[taskIndex]
                 updatedTaskData == Task_complete(Task_fromJSON(taskData), clock + 1)
                 patched == [ts EXCEPT ![taskIndex] = updatedTaskData]
                 saved == SM_updateTask(sm, env, taskId, {"status", "completedAt"},
                                        CompletionUpdates(updatedTaskData))
             IN  IF ~saved.ret
                 THEN Outcome(NoTask, [patched EXCEPT ![taskIndex] = taskData],
                              saved.sm, "false")
                 ELSE Outcome(updatedTaskData, patched, saved.sm, "true")

\* The position of the application and what it has done so far, kept in last:
\*   op      the call the running handler made last
\*   args    the title and the author of the form, then the sanitized ones
\*   id      the id of the task the handler works on
\*   rec     task: the record the TaskManager returned to the handler;
\*           shown: the notification shown last;
\*           shares: every invocation of shareDeclaration and of
\*           shareCompletion so far, with the id of the task it was made for
\*   saved   what the adapter returned to the TaskManager
App(op, args, id, task, shown, shares, saved) ==
    Last(op, 1, args, id, task # NoTask,
         [task |-> task, shown |-> shown, shares |-> shares], saved)

\* positions inside the synchronous part of a handler
AppRunning == {"validateForm", "addTask", "getTask", "completeTask"}

\* no handler is running: an event (a submit, a click, the handler of a
\* notification's retry button) can start one.  A handler waiting at its
\* await does not keep the next one from starting.
AppIdle == last.op \notin AppRunning

\* what the user typed into the form
AppTitles == { Str(<<>>), Str(<<" ">>), Str(<<"a">>), Str(<<"<">>) }
AppAuthors == { Str(<<>>), Str(<<"b">>) }

InitApp ==
    /\ localStorage = <<>>
    /\ sessionStorage = [tm \in TMs |-> <<>>]
    /\ fallbackToSession = [tm \in TMs |-> FALSE]
    /\ tasks = [tm \in TMs |-> <<>>]
    /\ nextId = 1
    /\ clock = 0
    /\ impl = "patch"
    /\ last = App("new", NoArgs, <<>>, NoTask, "none", <<>>, "notcalled")

AppStorageUnchanged ==
    UNCHANGED <<localStorage, sessionStorage, fallbackToSession, tasks,
                nextId, clock, impl>>

\* handleFormSubmit up to the validation: the form is read and validated,
\* an invalid form shows its errors and the handler returns
handleFormSubmit(bookTitle, author) ==
    /\ AppIdle
    /\ LET validationResult ==
               validateForm(FormData(<< <<"bookTitle", bookTitle>>,
                                        <<"author", author>> >>))
       IN  IF ~validationResult.isValid
           THEN last' = App("showValidationErrors", <<bookTitle, author>>, <<>>,
                            NoTask, "validationErrors", last.rec.shares, "notcalled")
           ELSE last' = App("validateForm",
                            <<validationResult.sanitizedData.bookTitle,
                              validationResult.sanitizedData.author>>, <<>>,
                            NoTask, last.rec.shown, last.rec.shares, "notcalled")
    /\ AppStorageUnchanged

\* if (!task) { error notification; return }: the position after addTask
handleFormSubmit_afterAddTask_always(task) == "addTask"

handleFormSubmit_afterAddTask(task) ==
    IF task = NoTask THEN "error" ELSE "addTask"

\* handleFormSubmit: const task = this.taskManager.addTask(bookTitle, author)
handleFormSubmit_addTask(env) ==
    /\ last.op = "validateForm"
    /\ nextId <= MaxTasks
    /\ clock < MaxClock
    /\ LET o == TaskManager_addTask(tasks[1], SMof(1), last.args[1], last.args[2], env)
       IN  /\ SetSM(1, o.sm)
           /\ tasks' = [tasks EXCEPT ![1] = o.tasks]
           /\ nextId' = IF o.saved = "true" THEN nextId + 1 ELSE nextId
           /\ clock' = IF o.saved = "true" THEN clock + 1 ELSE clock
           /\ last' = App(handleFormSubmit_afterAddTask(o.ret), last.args,
                          IF o.ret = NoTask THEN <<>> ELSE o.ret.id, o.ret,
                          IF o.ret = NoTask THEN "error:addTask" ELSE last.rec.shown,
                          last.rec.shares, o.saved)
    /\ UNCHANGED impl

\* handleFormSubmit: this.shareManager.shareDeclaration(bookTitle, author) is
\* invoked and the handler waits for its result
handleFormSubmit_shareDeclaration ==
    /\ last.op = "addTask"
    /\ last' = App("shareDeclaration", last.args, last.id, last.rec.task,
                   last.rec.shown,
                   Append(last.rec.shares, <<"shareDeclaration", last.id>>),
                   last.saved)
    /\ AppStorageUnchanged

\* the rest of a handler after its await: the notification for the result
\* of the share, resetForm or the focus, displayTasks
AppShareSettled ==
    /\ last.op \in {"shareDeclaration", "shareCompletion"}
    /\ \E success \in BOOLEAN :
          last' = App("displayTasks", NoArgs, last.id, last.rec.task,
                      IF success THEN "success" ELSE "shareError",
                      last.rec.shares, last.saved)
    /\ AppStorageUnchanged

\* ReadingDeclarationApp.completeTask up to getTask: an unknown id shows an
\* error and the handler returns
App_completeTask(taskId) ==
    /\ AppIdle
    /\ LET task == getTask(tasks[1], taskId)
       IN  IF task = NoTask
           THEN last' = App("error", NoArgs, taskId, NoTask, "error:taskNotFound",
                            last.rec.shares, "notcalled")
           ELSE last' = App("getTask", NoArgs, taskId, task, last.rec.shown,
                            last.rec.shares, "notcalled")
    /\ AppStorageUnchanged

\* completeTask: const completedTask = this.taskManager.completeTask(taskId);
\* null shows an error and the handler returns
App_completeTask_update(env) ==
    /\ last.op = "getTask"
    /\ clock < MaxClock
    /\ LET o == TaskManager_completeTask(tasks[1], SMof(1), last.id, env)
       IN  /\ SetSM(1, o.sm)
           /\ tasks' = [tasks EXCEPT ![1] = o.tasks]
           /\ clock' = IF o.saved = "true" THEN clock + 1 ELSE clock
           /\ last' = App(IF o.ret = NoTask THEN "error" ELSE "completeTask",
                          NoArgs, last.id, o.ret,
                          IF o.ret = NoTask THEN "error:completeTask" ELSE last.rec.shown,
                          last.rec.shares, o.saved)
    /\ UNCHANGED <<nextId, impl>>

\* completeTask: this.shareManager.shareCompletion(task.bookTitle, task.author)
\* is invoked and the handler waits for its result
App_completeTask_shareCompletion ==
    /\ last.op = "completeTask"
    /\ last' = App("shareCompletion", NoArgs, last.id, last.rec.task,
                   last.rec.shown,
                   Append(last.rec.shares, <<"shareCompletion", last.id>>),
                   last.saved)
    /\ AppStorageUnchanged

NextApp ==
    \/ \E bookTitle \in AppTitles, author \in AppAuthors :
          handleFormSubmit(bookTitle, author)
    \/ \E env \in Envs : handleFormSubmit_addTask(env)
    \/ handleFormSubmit_shareDeclaration
    \/ \E taskId \in TaskIds : App_completeTask(taskId)
    \/ \E env \in Envs : App_completeTask_update(env)
    \/ App_completeTask_shareCompletion
    \/ AppShareSettled

SpecApp == InitApp /\ [][NextApp]_vars

\* ------------------------------------------------ ShareManager: the share
\* What the browser does during one share:
\*   popup      window.open(url, 'xshare', ...) and the window it returns:
\*              "throws"; "null" no window; "closed" closed within 100 ms;
\*              "blank" still at about:blank; "open" at x.com (reading its
\*              location throws, or gives the URL); "focusThrows" open, and
\*              popup.focus() throws
\*   clipboard  "written" writeText resolves; "rejected" writeText rejects;
\*              "execCopied", "execRefused" no clipboard API, execCommand
\*              returns true, false
\*   tab        window.open('https://x.com/compose/post', '_blank'):
\*              "opened" or "throws"
Popups == {"throws", "null", "closed", "blank", "open", "focusThrows"}
Clipboards == {"written", "rejected", "execCopied", "execRefused"}
Tabs == {"opened", "throws"}

\* detectPopupBlock: it resolves to true
detectPopupBlock(popup) == popup \in {"null", "closed", "blank"}

\* openSharePopup that takes every window for an open one
openSharePopup_ignoresBlock(popup) ==
    [success |-> TRUE, errorType |-> "none"]

\* ShareManager.openSharePopup
openSharePopup(popup) ==
    IF popup = "throws" \/ detectPopupBlock(popup) \/ popup = "focusThrows"
    THEN [success |-> FALSE, errorType |-> "POPUP_BLOCKED"]
    ELSE [success |-> TRUE, errorType |-> "none"]

\* ShareManager.copyToClipboard
copyToClipboard(clipboard) == clipboard \in {"written", "execCopied"}

\* ShareManager.provideManualPostingOption
provideManualPostingOption(text, clipboard, tab) ==
    IF tab = "throws"
    THEN [success |-> FALSE, copied |-> FALSE, text |-> text]
    ELSE [success |-> TRUE, copied |-> copyToClipboard(clipboard), text |-> text]

\* what a share method settles with; manualOption holds the manual option
\* when the result has one
ShareResult(success, method, text, errorType, manualOption) ==
    [settled |-> "resolved", success |-> success, method |-> method, text |-> text,
     errorType |-> errorType, manualOption |-> manualOption]

\* the promise of a share method is rejected
ShareRejected == [settled |-> "rejected"]

\* ShareManager.executeShareWithErrorHandling
executeShareWithErrorHandling(text, popup, clipboard, tab) ==
    IF generateShareUrl(text) # "url"
    THEN ShareResult(FALSE, "manual", text, "URL_GENERATION_ERROR",
                     <<provideManualPostingOption(text, clipboard, tab)>>)
    ELSE LET popupResult == openSharePopup(popup)
         IN  IF popupResult.success
             THEN ShareResult(TRUE, "popup", text, "none", <<>>)
             ELSE ShareResult(FALSE, "manual", text, popupResult.errorType,
                              <<provideManualPostingOption(text, clipboard, tab)>>)

\* the arguments for which the generators of src/js/share-manager.js throw:
\* none, sanitizeForShare returns '' for what is not a string
ShareManager_generatorThrows(bookTitle, author) == FALSE

\* ShareManager.shareDeclaration: an exception of the generator is caught
\* and the handler calls the generator again
shareDeclaration(bookTitle, author, popup, clipboard, tab) ==
    IF ShareManager_generatorThrows(bookTitle, author) THEN ShareRejected
    ELSE Then(generateDeclarationText(bookTitle, author),
              LAMBDA text : executeShareWithErrorHandling(text, popup, clipboard, tab))

\* ShareManager.shareCompletion
shareCompletion(bookTitle, author, popup, clipboard, tab) ==
    IF ShareManager_generatorThrows(bookTitle, author) THEN ShareRejected
    ELSE Then(generateCompletionText(bookTitle, author),
              LAMBDA text : executeShareWithErrorHandling(text, popup, clipboard, tab))

\* await new ShareManager().shareDeclaration(bookTitle, author)
shareDeclarationCall ==
    /\ last.op = "share"
    /\ \E popup \in Popups, clipboard \in Clipboards, tab \in Tabs :
          last' = Last("shareDeclaration", 1,
                       <<last.args[1], last.args[2], popup, clipboard, tab>>, <<>>, TRUE,
                       shareDeclaration(last.args[1], last.args[2], popup, clipboard, tab),
                       "notcalled")
    /\ UNCHANGED <<localStorage, sessionStorage, fallbackToSession, tasks,
                   nextId, clock, impl>>

\* await new ShareManager().shareCompletion(bookTitle, author)
shareCompletionCall ==
    /\ last.op = "share"
    /\ \E popup \in Popups, clipboard \in Clipboards, tab \in Tabs :
          last' = Last("shareCompletion", 1,
                       <<last.args[1], last.args[2], popup, clipboard, tab>>, <<>>, TRUE,
                       shareCompletion(last.args[1], last.args[2], popup, clipboard, tab),
                       "notcalled")
    /\ UNCHANGED <<localStorage, sessionStorage, fallbackToSession, tasks,
                   nextId, clock, impl>>

\* a title and an author are at hand: plain, Japanese beyond the limit, with
\* an emoji at the cut, absent
InitShareResult ==
    /\ localStorage = <<>>
    /\ sessionStorage = [tm \in TMs |-> <<>>]
    /\ fallbackToSession = [tm \in TMs |-> FALSE]
    /\ tasks = [tm \in TMs |-> <<>>]
    /\ nextId = 1
    /\ clock = 0
    /\ impl = "patch"
    /\ \E bookTitle \in { Str(<<"a">>), Str(Ja(300)), NotAString,
                          Str(Rep("a", 257) \o Emoji \o Rep("a", 10)) },
          author \in { Str(<<>>), Str(<<"b">>), Str(Ja(MaxAuthorLength)) } :
          last = Last("share", 1, <<bookTitle, author>>, <<>>, TRUE, NoTask, "notcalled")

NextShareResult ==
    \/ shareDeclarationCall
    \/ shareCompletionCall

SpecShareResult == InitShareResult /\ [][NextShareResult]_vars

\* ---------------------------------------------------- NotificationManager
\* this.notifications is a Map; its entries in the order of insertion:
\*   id, message, type, timestamp   as stored by show
\*   auto         the timer show has set for remove(id) has not fired
\*   dismissing   a timer remove(id) has set for notifications.delete(id)
\*                has not fired
\* The state of a NotificationManager, kept in last.rec: the entries, the
\* time Date.now() returns, the number of notifications added so far.
Notifications(ns, now, added) ==
    [notifications |-> ns, now |-> now, added |-> added]

\* NotificationManager.isDuplicate
isDuplicate(ns, message, type) ==
    \E i \in 1..Len(ns) : ns[i].message = message /\ ns[i].type = type

\* the forEach of removeOldest from the i-th entry on: the index of the
\* entry it ends with, 0 for null
RECURSIVE OldestFrom(_, _, _, _)
OldestFrom(ns, i, oldestIndex, oldestTime) ==
    IF i > Len(ns) THEN oldestIndex
    ELSE IF ns[i].timestamp < oldestTime
         THEN OldestFrom(ns, i + 1, i, ns[i].timestamp)
         ELSE OldestFrom(ns, i + 1, oldestIndex, oldestTime)

\* NotificationManager.remove of the i-th entry: the element is marked and
\* a timer of 300 ms is set, the entry stays in the map
NotificationManager_remove(ns, i) ==
    [ns EXCEPT ![i].dismissing = TRUE]

\* NotificationManager.removeOldest at the time now
removeOldest(ns, now) ==
    LET oldestIndex == OldestFrom(ns, 1, 0, now)
    IN  IF oldestIndex = 0 THEN ns ELSE NotificationManager_remove(ns, oldestIndex)

InitNotify ==
    /\ localStorage = <<>>
    /\ sessionStorage = [tm \in TMs |-> <<>>]
    /\ fallbackToSession = [tm \in TMs |-> FALSE]
    /\ tasks = [tm \in TMs |-> <<>>]
    /\ nextId = 1
    /\ clock = 0
    /\ impl = "patch"
    /\ last = Last("new", 1, NoArgs, <<>>, TRUE, Notifications(<<>>, 1, 0), "notcalled")

NotifyUnchanged ==
    UNCHANGED <<localStorage, sessionStorage, fallbackToSession, tasks,
                nextId, clock, impl>>

\* NotificationManager.show(message, type, options), tick milliseconds after
\* the call before; id is what the call returns (<<>> for null)
NotificationManager_show(message, type, persistent, tick) ==
    /\ "notifications" \in DOMAIN last.rec
    /\ LET ns == last.rec.notifications
           now == last.rec.now + tick
       IN  IF isDuplicate(ns, message, type)
           THEN last' = Last("show", 1, NoArgs, <<>>, FALSE,
                             Notifications(ns, now, last.rec.added), "notcalled")
           ELSE /\ last.rec.added < MaxShows
                /\ LET evicted == IF Len(ns) >= maxNotifications
                                  THEN removeOldest(ns, now) ELSE ns
                       notificationId == last.rec.added + 1
                   IN  last' = Last("show", 1, NoArgs, <<notificationId>>, TRUE,
                                    Notifications(
                                        Append(evicted,
                                               [id |-> notificationId, message |-> message,
                                                type |-> type, timestamp |-> now,
                                                auto |-> ~persistent, dismissing |-> FALSE]),
                                        now, notificationId),
                                    "notcalled")
    /\ NotifyUnchanged

\* the timer of show fires: this.remove(notificationId)
autoRemoveTimer(i) ==
    /\ "notifications" \in DOMAIN last.rec
    /\ i \in 1..Len(last.rec.notifications)
    /\ last.rec.notifications[i].auto
    /\ last' = Last("remove", 1, NoArgs, <<last.rec.notifications[i].id>>, TRUE,
                    Notifications(
                        NotificationManager_remove(
                            [last.rec.notifications EXCEPT ![i].auto = FALSE], i),
                        last.rec.now, last.rec.added),
                    "notcalled")
    /\ NotifyUnchanged

\* the timer of remove fires: this.notifications.delete(id)
removeTimer(i) ==
    /\ "notifications" \in DOMAIN last.rec
    /\ i \in 1..Len(last.rec.notifications)
    /\ last.rec.notifications[i].dismissing
    /\ last' = Last("delete", 1, NoArgs, <<last.rec.notifications[i].id>>, TRUE,
                    Notifications(
                        [k \in 1..(Len(last.rec.notifications) - 1) |->
                            IF k < i THEN last.rec.notifications[k]
                            ELSE last.rec.notifications[k + 1]],
                        last.rec.now, last.rec.added),
                    "notcalled")
    /\ NotifyUnchanged

\* a new message has the number of the notification it becomes and comes
\* in the same millisecond as the call before or in the next; a repeated
\* message is the message of an entry of the map
NextNotify ==
    \/ \E message \in 1..MaxShows, persistent \in BOOLEAN, tick \in {0, 1} :
          /\ \/ message = last.rec.added + 1
             \/ isDuplicate(last.rec.notifications, message, "info") /\ tick = 0
          /\ NotificationManager_show(message, "info", persistent, tick)
    \/ \E i \in 1..MaxShows : autoRemoveTimer(i)
    \/ \E i \in 1..MaxShows : removeTimer(i)

SpecNotify == InitNotify /\ [][NextNotify]_vars

\* ------------------------------------- InputValidator: one instance in use
\* The patterns of this.xssPatterns have the g flag: each keeps a lastIndex,
\* where its next test starts.

\* pattern.test(s) with pattern.lastIndex = lastIndex: the lastIndex after
\* the call, which is the end of the match found, 0 when none was found
RegExp_test(s, p, lastIndex) ==
    LET starts == { i \in (lastIndex + 1)..Len(s) : MatchEnd(s, i, p) > 0 }
    IN  IF starts = {} THEN 0
        ELSE MatchEnd(s, CHOOSE i \in starts : \A j \in starts : i <= j, p)

\* the loop of containsXSS from the k-th pattern on: what it returns and the
\* lastIndex of every pattern after it
RECURSIVE containsXSS_from(_, _, _)
containsXSS_from(input, lastIndex, k) ==
    IF k > Len(xssPatterns) THEN [ret |-> FALSE, lastIndex |-> lastIndex]
    ELSE LET end == RegExp_test(input, xssPatterns[k], lastIndex[k])
             tested == [lastIndex EXCEPT ![k] = end]
         IN  IF end # 0 THEN [ret |-> TRUE, lastIndex |-> tested]
             ELSE containsXSS_from(input, tested, k + 1)

\* InputValidator.containsXSS on an instance whose patterns have the
\* lastIndex given
InputValidator_containsXSS(input, lastIndex) ==
    containsXSS_from(input, lastIndex, 1)

\* the lastIndex of the patterns after sanitizeInput(input): replace with a
\* g pattern starts at 0 and leaves 0; what is not a string is returned
\* before any replace
sanitizeInput_lastIndex(input, lastIndex) ==
    IF input.isString THEN [k \in 1..Len(xssPatterns) |-> 0] ELSE lastIndex

\* the lastIndex of the patterns after validateField on a field with a
\* rule: sanitizeInput, then containsXSS of a value that is not empty
validateField_lastIndex(value, lastIndex) ==
    LET sanitizedValue == InputValidator_sanitizeInput(value)
        sanitized == sanitizeInput_lastIndex(value, lastIndex)
    IN  IF isEmpty(sanitizedValue) THEN sanitized
        ELSE InputValidator_containsXSS(sanitizedValue, sanitized).lastIndex

\* the strings passed to the three methods: plain, one pattern, the pattern
\* twice, a pattern that sanitizeInput leaves behind, a handler, tags, two
\* patterns in one string
XssInputs ==
    { <<"a">>,
      <<"j", "a", "v", "a", "s", "c", "r", "i", "p", "t", ":">>,
      <<"j", "a", "v", "a", "s", "c", "r", "i", "p", "t", ":",
        "j", "a", "v", "a", "s", "c", "r", "i", "p", "t", ":">>,
      <<"j", "a", "v", "a", "J", "a", "v", "a", "S", "c", "r", "i", "p", "t", ":",
        "s", "c", "r", "i", "p", "t", ":">>,
      <<"a", " ", "o", "n", "x", "=">>,
      <<"<", "l", "i", "n", "k", ">">>,
      <<"<", "m", "e", "t", "a", ">">>,
      <<"v", "b", "s", "c", "r", "i", "p", "t", ":">>,
      <<"o", "n", "x", "=", "j", "a", "v", "a", "s", "c", "r", "i", "p", "t", ":">>,
      <<"<", "l", "i", "n", "k", ">", "v", "b", "s", "c", "r", "i", "p", "t", ":">> }

\* new InputValidator(): every lastIndex is 0
InitXss ==
    /\ localStorage = <<>>
    /\ sessionStorage = [tm \in TMs |-> <<>>]
    /\ fallbackToSession = [tm \in TMs |-> FALSE]
    /\ tasks = [tm \in TMs |-> <<>>]
    /\ nextId = 1
    /\ clock = 0
    /\ impl = "patch"
    /\ last = Last("new", 1, <<>>, <<>>, TRUE,
                   [ret |-> FALSE, lastIndex |-> [k \in 1..Len(xssPatterns) |-> 0]],
                   "notcalled")

XssCall(op, input, ret, lastIndex) ==
    /\ last' = Last(op, 1, <<input>>, <<>>, TRUE,
                    [ret |-> ret, lastIndex |-> lastIndex], "notcalled")
    /\ UNCHANGED <<localStorage, sessionStorage, fallbackToSession, tasks,
                   nextId, clock, impl>>

\* validator.containsXSS(input)
containsXSSCall(input) ==
    LET r == InputValidator_containsXSS(input, last.rec.lastIndex)
    IN  XssCall("containsXSS", input, r.ret, r.lastIndex)

\* validator.sanitizeInput(input)
sanitizeInputOnInstanceCall(input) ==
    XssCall("sanitizeInput", input, FALSE,
            sanitizeInput_lastIndex(Str(input), last.rec.lastIndex))

\* validator.validateField('bookTitle', value)
validateFieldOnInstanceCall(value) ==
    XssCall("validateField", value, FALSE,
            validateField_lastIndex(Str(value), last.rec.lastIndex))

NextXss ==
    \/ \E input \in XssInputs : containsXSSCall(input)
    \/ \E input \in XssInputs : sanitizeInputOnInstanceCall(input)
    \/ \E value \in XssInputs : validateFieldOnInstanceCall(value)

SpecXss == InitXss /\ [][NextXss]_vars

\* ================================================================ claims
\* the records of a collection
Records(ts) == { ts[i] : i \in 1..Len(ts) }

\* the status of the record with the id in a collection, "none" if absent
StatusIn(ts, id) == getTask(ts, id).status

\* every record the single TaskManager holds or has stored
AllRecords == Records(tasks[1]) \cup Records(localStorage) \cup Records(sessionStorage[1])

\* C1: in every reachable state, every record of the mirror and of the stores
\* has completedAt = null exactly when its status is 'active', and completedAt
\* set exactly when its status is 'completed'.
C1_CompletedAtIffCompleted ==
    \A r \in AllRecords :
        /\ (r.completedAt = Null) <=> (r.status = "active")
        /\ (r.completedAt # Null) <=> (r.status = "completed")

\* a completed record is in the mirror and in the store
C1_Witness ==
    /\ last.op = "completeTask" /\ last.ok
    /\ \E r \in Records(tasks[1]) : r.status = "completed" /\ r.completedAt # Null
    /\ \E r \in Records(localStorage) : r.status = "completed" /\ r.completedAt # Null

C3_Precondition(id) ==
    \/ StatusIn(tasks[1], id) = "completed"
    \/ StatusIn(localStorage, id) = "completed"
    \/ StatusIn(sessionStorage[1], id) = "completed"
    \/ /\ StatusIn(tasks[1], id) = "none"
       /\ StatusIn(localStorage, id) = "none"
       /\ StatusIn(sessionStorage[1], id) = "none"

C3_SecondCompleteRejected ==
    [][(last'.op = "completeTask" /\ C3_Precondition(last'.id))
          => /\ ~last'.ok
             /\ last'.rec = NoTask
             /\ UNCHANGED <<tasks, localStorage, sessionStorage>>
      ]_vars

\* completeTask has just returned null for a task that is completed
C3_Witness ==
    /\ last.op = "completeTask" /\ ~last.ok
    /\ StatusIn(tasks[1], last.id) = "completed"
    /\ getTask(tasks[1], last.id).completedAt # Null

\* C4: when the adapter's saveTask returns false during addTask, addTask
\* returns null, the mirror is what it was, and no store holds a record of
\* the attempted task.
C4_StorageFailureIsolation ==
    [][(last'.op = "addTask" /\ last'.saved = "false")
          => /\ ~last'.ok
             /\ last'.rec = NoTask
             /\ tasks' = tasks
             /\ StatusIn(localStorage', last'.id) = "none"
             /\ StatusIn(sessionStorage'[1], last'.id) = "none"
      ]_vars

\* a save failed while the mirror held a task
C4_Witness ==
    /\ last.op = "addTask" /\ last.saved = "false" /\ ~last.ok
    /\ tasks[1] # <<>>

\* C5: addTask with a title that is empty, blank, not a string or longer than
\* 100 characters once sanitized, or with an author longer than 50 characters,
\* returns null, does not call saveTask and changes neither mirror nor store.
C5_Rejected(t, a) ==
    \/ ~t.isString
    \/ trim(t.val) = <<>>
    \/ Len(TaskValidator_sanitizeInput(t)) > MaxTitleLength
    \/ Len(TaskValidator_sanitizeInput(a)) > MaxAuthorLength

C5_ValidationFailureIsolation ==
    [][(last'.op = "addTask" /\ C5_Rejected(last'.args[1], last'.args[2]))
          => /\ ~last'.ok
             /\ last'.rec = NoTask
             /\ last'.saved = "notcalled"
             /\ UNCHANGED <<tasks, localStorage, sessionStorage>>
      ]_vars

\* addTask has just rejected its input while a task was stored
C5_Witness ==
    /\ last.op = "addTask" /\ ~last.ok /\ last.saved = "notcalled"
    /\ tasks[1] # <<>> /\ localStorage # <<>>

\* C6: with one writer and the primary store available throughout, after
\* every mutating operation that reports success the mirror equals the
\* collection loadTasks returns.
C6_MirrorEqualsStore ==
    (last.op \in {"addTask", "completeTask", "deleteTask", "clearAllTasks"} /\ last.ok)
        => tasks[1] = SM_loadTasks(SMof(1), "ok")

\* C7: completeTask decides against the store: when the record is already
\* completed in the store, or is no longer in the store, it returns null and
\* the store (with the stored completedAt) stays as it is.
C7_DecidesAgainstStore ==
    [][(last'.op = "completeTask" /\ StatusIn(localStorage, last'.id) # "active")
          => /\ ~last'.ok
             /\ localStorage' = localStorage
      ]_vars

\* C8: every stored record has a bookTitle of 1 to 100 characters and an
\* author of at most 50 characters.
C8_StoredLengths ==
    \A r \in Records(localStorage) \cup Records(sessionStorage[1]) :
        /\ 1 <= Len(r.bookTitle)
        /\ Len(r.bookTitle) <= MaxTitleLength
        /\ Len(r.author) <= MaxAuthorLength

\* C9: no two records of the stored collection have the same id.
C9_StoredIdsUnique ==
    \A i, j \in 1..Len(localStorage) :
        localStorage[i].id = localStorage[j].id => i = j

\* C10: the record a successful addTask returns agrees with what getTask
\* returns for its id right afterwards: same id, bookTitle, author and
\* status, status 'active' and completedAt null.
C10_ReturnedIsSnapshot ==
    (last.op = "addTask" /\ last.ok)
        => LET r == last.rec
               g == getTask(tasks[1], r.id)
           IN  /\ g.id = r.id
               /\ g.bookTitle = r.bookTitle
               /\ g.author = r.author
               /\ g.status = r.status
               /\ g.status = "active"
               /\ g.completedAt = Null

\* C11: once a StorageManager operation has selected the fallback store
\* (fallbackToSession is set), the primary store is never written again by
\* that StorageManager: every later write goes to the fallback store.
C11_SelectionPermanent ==
    [][fallbackToSession[1] => localStorage' = localStorage]_vars

\* C12: getStorageInfo reports the store its reads and writes go to:
\* storageType is 'localStorage' exactly when getStorage returns localStorage,
\* 'sessionStorage' exactly when it returns sessionStorage, and taskCount is
\* the number of records in that store.
C12_InfoReportsActiveStore ==
    [][\A env \in Envs \ {"noStorage"} :
          (last'.op = "getStorageInfo" /\ getStorageInfoCall(env))
            => LET info == last'.rec
               IN  /\ (info.storageType = "localStorage")
                        <=> (getStorage(env) = "localStorage")
                   /\ (info.storageType = "sessionStorage")
                        <=> (getStorage(env) = "sessionStorage")
                   /\ info.taskCount = Len(getItem(SMof(1), env))
      ]_vars

\* C13: saveTask of a record that is missing a required field, has an empty
\* id, an empty or over-100-character bookTitle, an over-50-character author,
\* a status outside {active, completed}, or timestamps against the invariant
\* (active with completedAt set, completed with completedAt null) returns
\* false and leaves the stored collection unchanged.
C13_InvalidShape(task) ==
    IF ~({"id", "bookTitle", "status", "createdAt"} \subseteq DOMAIN task) THEN TRUE
    ELSE \/ Len(task.id) = 0
         \/ Len(task.bookTitle) = 0
         \/ Len(task.bookTitle) > MaxTitleLength
         \/ Len(task.author) > MaxAuthorLength
         \/ task.status \notin {"active", "completed"}
         \/ task.status = "active" /\ task.completedAt # Null
         \/ task.status = "completed" /\ task.completedAt = Null

C13_InvalidShapeRejected ==
    [][\A task \in InvalidRecords \cup CallerRecords, env \in PrimaryUpEnvs :
          (C13_InvalidShape(task) /\ saveTaskCall(task, env))
            => /\ ~last'.ok
               /\ localStorage' = localStorage
               /\ sessionStorage' = sessionStorage
      ]_vars

\* C14: a successful saveTask replaces the stored record with the same id at
\* its position (length unchanged) or else appends the record at the end,
\* leaves every other stored record where it was, and saving the same record
\* once more leaves the store as it is.
C14_SaveTaskIsUpsert ==
    [][\A task \in CallerRecords, env \in PrimaryUpEnvs :
          (saveTaskCall(task, env) /\ last'.ok)
            => LET existing == findIndex(localStorage, task.id)
                   n == Len(localStorage)
                   after == [local |-> localStorage', session |-> sessionStorage'[1],
                             fb |-> fallbackToSession'[1]]
               IN  /\ IF existing > 0
                      THEN /\ Len(localStorage') = n
                           /\ \A j \in (1..n) \ {existing} : localStorage'[j] = localStorage[j]
                      ELSE /\ Len(localStorage') = n + 1
                           /\ \A j \in 1..n : localStorage'[j] = localStorage[j]
                   /\ SM_saveTask(after, env, task).sm.local = localStorage'
      ]_vars

\* C15: deleteTask for an id that is not present (not in the mirror of the
\* TaskManager called, or not in the store) returns false and leaves every
\* mirror and the store exactly as they were.
C15_Absent(tm, id) ==
    \/ StatusIn(tasks[tm], id) = "none"
    \/ StatusIn(localStorage, id) = "none"

C15_DeleteAbsentUnchanged ==
    [][(last'.op = "deleteTask" /\ C15_Absent(last'.tm, last'.id))
          => /\ ~last'.ok
             /\ tasks' = tasks
             /\ localStorage' = localStorage
             /\ sessionStorage' = sessionStorage
      ]_vars

\* deleteTask has just returned false for a task that its mirror still holds
\* and that another TaskManager had removed from the store
C15_Witness ==
    /\ last.op = "deleteTask" /\ ~last.ok /\ last.saved = "false"
    /\ StatusIn(tasks[last.tm], last.id) # "none"
    /\ StatusIn(localStorage, last.id) = "none"

\* C16: when updateTask returns false during completeTask, or the adapter's
\* deleteTask returns false during deleteTask, for a task of the mirror, the
\* call returns null / false and the mirror is the same sequence of records
\* as before: the task is still active with completedAt null, and a task
\* whose deletion failed is still at its position.
C16_AdapterFailureIsolation ==
    [][(/\ last'.op \in {"completeTask", "deleteTask"}
        /\ last'.saved = "false"
        /\ StatusIn(tasks[1], last'.id) # "none")
          => /\ ~last'.ok
             /\ last'.rec = NoTask
             /\ tasks' = tasks
             /\ last'.op = "completeTask"
                  => /\ getTask(tasks'[1], last'.id).status = "active"
                     /\ getTask(tasks'[1], last'.id).completedAt = Null
      ]_vars

\* the deletion of the first of two tasks has just failed in the adapter
C16_Witness ==
    /\ last.op = "deleteTask" /\ last.saved = "false" /\ ~last.ok
    /\ Len(tasks[1]) = 2
    /\ tasks[1][1].id = last.id

\* C17: loadTasks returns without throwing and leaves the stores as they
\* are, and it returns the empty collection when the key is absent, when the
\* stored text does not parse, and when it parses to something that is not
\* an array of records.
C17_LoadTasksTotal ==
    [][\A env \in Envs :
          (last'.op = "loadTasks" /\ loadTasksCall(env))
            => /\ last'.ok
               /\ localStorage' = localStorage
               /\ sessionStorage' = sessionStorage
               /\ (env = "noStorage" \/ getItem(SMof(1), env) = <<>>
                     \/ IsCorrupt(getItem(SMof(1), env)))
                    => last'.rec = <<>>
      ]_vars

\* C18: when the adapter's clearAllTasks succeeds, TaskManager.clearAllTasks
\* returns true, the mirror is empty, the store the adapter uses is empty and
\* a TaskManager constructed on it starts empty; when it fails, the call
\* returns false and the mirror is unchanged.
C18_ClearAllTasks ==
    [][\A env \in Envs :
          (last'.op = "clearAllTasks" /\ clearAllTasks(1, env))
            => LET after == [local |-> localStorage', session |-> sessionStorage'[1],
                             fb |-> fallbackToSession'[1]]
               IN  IF last'.saved = "true"
                   THEN /\ last'.ok
                        /\ tasks'[1] = <<>>
                        /\ SM_loadTasks(after, env) = <<>>
                        /\ TaskManager_new(after, env) = <<>>
                   ELSE /\ ~last'.ok
                        /\ tasks' = tasks
      ]_vars

\* clearAllTasks has just succeeded after a task had been stored
C18_Witness ==
    /\ last.op = "clearAllTasks" /\ last.ok
    /\ nextId > 1
    /\ tasks[1] = <<>> /\ localStorage = <<>>

\* C19: after each successful addTask, completeTask and deleteTask, a
\* TaskManager constructed on the same StorageManager sees the ids the
\* working TaskManager holds, with the same statuses, so getActiveTasks and
\* getCompletedTasks have the same lengths in both.
C19_View(ts) == { <<ts[i].id, ts[i].status>> : i \in 1..Len(ts) }

C19_Mutated(env) ==
    \/ /\ last'.op = "addTask"
       /\ \/ addTask(1, last'.args[1], last'.args[2], env)
          \/ addTask_js(1, last'.args[1], last'.args[2], env)
    \/ /\ last'.op = "completeTask"
       /\ \/ completeTask(1, last'.id, env)
          \/ completeTask_js(1, last'.id, env)
    \/ /\ last'.op = "deleteTask"
       /\ \/ deleteTask(1, last'.id, env)
          \/ deleteTask_js(1, last'.id, env)

C19_PersistsAcrossInstances ==
    [][\A env \in Envs :
          (last'.ok /\ C19_Mutated(env))
            => LET after == [local |-> localStorage', session |-> sessionStorage'[1],
                             fb |-> fallbackToSession'[1]]
                   fresh == TaskManager_new(after, env)
               IN  /\ C19_View(fresh) = C19_View(tasks'[1])
                   /\ Len(getActiveTasks(fresh)) = Len(getActiveTasks(tasks'[1]))
                   /\ Len(getCompletedTasks(fresh)) = Len(getCompletedTasks(tasks'[1]))
      ]_vars

\* C20: adding, removing and reordering elements of the collection that
\* getAllTasks returned changes the result of none of getAllTasks,
\* getActiveTasks, getCompletedTasks, getTask and getTaskStats.
C20_DefensiveCopy ==
    [][last'.op = "callerMutates"
          => /\ getAllTasks(tasks'[1]).val = getAllTasks(tasks[1]).val
             /\ getActiveTasks(tasks'[1]) = getActiveTasks(tasks[1])
             /\ getCompletedTasks(tasks'[1]) = getCompletedTasks(tasks[1])
             /\ \A id \in TaskIds : getTask(tasks'[1], id) = getTask(tasks[1], id)
             /\ getTaskStats(tasks'[1]) = getTaskStats(tasks[1])
      ]_vars

\* the caller's array no longer has the contents of the mirror, which holds
\* a task
C20_Witness ==
    /\ last.op = "callerMutates"
    /\ tasks[1] # <<>>
    /\ last.rec.val # tasks[1]

\* C21: the object getTaskStats returns has total = the number of tasks of
\* the mirror, active and completed = the numbers of tasks with those
\* statuses, active + completed = total, completionRate * total =
\* completed * 100 when there are tasks, and completionRate = 0 when there
\* are none.  (completionRate is the quotient rate[1] / rate[2].)
C21_Count(status) ==
    Cardinality({ i \in 1..Len(tasks[1]) : tasks[1][i].status = status })

C22_Time(task) == task.createdAt[2]

C22_Occurrences(s, x) == Cardinality({ i \in 1..Len(s) : s[i] = x })

RECURSIVE C22_CreatedAt(_, _)
C22_CreatedAt(s, t) ==
    IF s = <<>> THEN <<>>
    ELSE (IF C22_Time(Head(s)) = t THEN <<Head(s)>> ELSE <<>>) \o C22_CreatedAt(Tail(s), t)

C22_SortedStablePermutation ==
    last.op = "sortTasksByDate"
        => LET in == last.args[1]
               order == last.args[2]
               out == last.rec.val
           IN  /\ Len(out) = Len(in)
               /\ \A x \in SortRecords : C22_Occurrences(out, x) = C22_Occurrences(in, x)
               /\ \A i, j \in 1..Len(out) :
                     i < j => IF order = "asc"
                              THEN C22_Time(out[i]) <= C22_Time(out[j])
                              ELSE C22_Time(out[i]) >= C22_Time(out[j])
               /\ \A t \in SortTimes : C22_CreatedAt(out, t) = C22_CreatedAt(in, t)
               /\ last.rec.input = in

\* three tasks, two of them created at the same instant, were sorted
\* descending into another order than they came in
C22_Witness ==
    /\ last.op = "sortTasksByDate"
    /\ last.args[2] = "omitted"
    /\ Len(last.args[1]) = 3
    /\ last.rec.val # last.args[1]
    /\ \E i, j \in 1..3 : i # j /\ last.args[1][i] # last.args[1][j]
                          /\ C22_Time(last.args[1][i]) = C22_Time(last.args[1][j])

\* C23: Task.fromJSON(t.toJSON()) has the id, bookTitle, author, status,
\* createdAt and completedAt of t, for active and for completed t, and not
\* the id and creation time the constructor inside fromJSON generated.
C23_RoundTrip ==
    last.op = "fromJSON(toJSON)"
        => LET t == last.args[1]
               r == last.rec
           IN  /\ r.id = t.id
               /\ r.bookTitle = t.bookTitle
               /\ r.author = t.author
               /\ r.status = t.status
               /\ r.createdAt = t.createdAt
               /\ r.completedAt = t.completedAt

\* a completed Task made the round trip, its id and creation time differing
\* from the ones the constructor generates
C23_Witness ==
    /\ last.op = "fromJSON(toJSON)"
    /\ last.args[1].status = "completed"
    /\ last.args[1].id # generateUUID(nextId)
    /\ last.args[1].createdAt # Date(clock + 1)
    /\ last.rec.completedAt # Null

\* C24: complete() called on a Task that is completed fails and leaves
\* status and completedAt as they are, so completedAt is set only once.
C24_CompleteOnce ==
    (last.op = "Task.complete" /\ last.args[1].status = "completed")
        => /\ ~last.ok
           /\ last.rec.status = "completed"
           /\ last.rec.completedAt = last.args[1].completedAt

\* C25: an id is never reused.  Every id of a record in the mirror or in a
\* store is one generateUUID has handed out; the ids handed out are never
\* taken back; and an addTask that succeeds assigns an id that is none of the
\* ids handed out before (those still stored and those deleted since), and
\* leaves every record the stores held in place.
C25_Issued(n) == { generateUUID(k) : k \in 1..(n - 1) }

C25_Ids(ts) == { r.id : r \in Records(ts) }

C26_Idempotent ==
    last.op \in {"InputValidator.sanitizeInput", "TaskValidator.sanitizeInput"}
        => last.rec.twice = last.rec.once

\* the part of C26 about TaskValidator.sanitizeInput alone
C26_TaskValidatorPart ==
    last.op = "TaskValidator.sanitizeInput" => last.rec.twice = last.rec.once

\* C27: what InputValidator.sanitizeInput returns holds no '<script>' and no
\* occurrence of a pattern the sanitizer removes ('javascript:', 'vbscript:',
\* 'data:text/html', on<word>=), also when the removal of one occurrence
\* joins the text around it into another.
C27_Has(s, lit) == FindLiteral(s, 1, lit) > 0

C27_NoPatternLeft ==
    last.op = "InputValidator.sanitizeInput"
        => /\ ~C27_Has(last.rec.once, <<"<", "s", "c", "r", "i", "p", "t", ">">>)
           /\ \A k \in 7..Len(xssPatterns) :
                 RemovePattern(last.rec.once, xssPatterns[k]) = last.rec.once

\* the part of C27 about '<script>' alone
C27_NoScriptTag ==
    last.op = "InputValidator.sanitizeInput"
        => ~C27_Has(last.rec.once, <<"<", "s", "c", "r", "i", "p", "t", ">">>)

\* C28: bookTitle is required at form level.  When validateForm reports
\* isValid = true, sanitizedData holds a bookTitle of 1 to 100 characters and,
\* if it holds an author, one of at most 50 characters; form data whose
\* bookTitle is empty, blank or missing is never reported valid.
C28_TitleOf(formData) ==
    { formData.entries[k][2] :
        k \in { i \in 1..Len(formData.entries) : formData.entries[i][1] = "bookTitle" } }

C28_BookTitleRequired ==
    (last.op = "validateForm" /\ last.ok /\ last.rec.isValid)
        => /\ "bookTitle" \in DOMAIN last.rec.sanitizedData
           /\ Len(last.rec.sanitizedData["bookTitle"].val) \in 1..100
           /\ "author" \in DOMAIN last.rec.sanitizedData
                 => Len(last.rec.sanitizedData["author"].val) <= 50
           /\ \A t \in C28_TitleOf(last.args[1]) : t.isString /\ trim(t.val) # <<>>

\* the part of C28 about the fields that are present
C28_PresentFieldsBounded ==
    (last.op = "validateForm" /\ last.ok /\ last.rec.isValid)
        => /\ "bookTitle" \in DOMAIN last.rec.sanitizedData
                 => Len(last.rec.sanitizedData["bookTitle"].val) \in 1..100
           /\ "author" \in DOMAIN last.rec.sanitizedData
                 => Len(last.rec.sanitizedData["author"].val) <= 50
           /\ \A t \in C28_TitleOf(last.args[1]) : t.isString /\ trim(t.val) # <<>>

\* C29: failures are returned, never thrown.  addTask, completeTask,
\* deleteTask and clearAllTasks return (a record or null, true or false) for
\* every argument and every storage environment, and validateField and
\* validateForm return a result object for every argument.
C29_FailuresReturned ==
    /\ last.op \in {"addTask", "completeTask", "deleteTask", "clearAllTasks"}
          => /\ last.ok \in BOOLEAN
             /\ ~last.ok => last.rec = NoTask
    /\ last.op \in {"validateField", "validateForm"}
          => /\ last.ok
             /\ ~last.rec.thrown
             /\ last.rec.isValid \in BOOLEAN

\* the part of C29 about the TaskManager
C29_TaskManagerPart ==
    last.op \in {"addTask", "completeTask", "deleteTask", "clearAllTasks"}
        => /\ last.ok \in BOOLEAN
           /\ ~last.ok => last.rec = NoTask

\* C30: the share text fits the limit.  For every bookTitle and author, of any
\* length, generateDeclarationText and generateCompletionText return a text
\* of at most 280 characters, and generateShareUrl does not reject the text
\* as too long.
C30_ShareTextFits ==
    last.op \in {"generateDeclarationText", "generateCompletionText"}
        => /\ Len(last.rec.text) <= maxTweetLength
           /\ last.rec.url # "textTooLong"

\* the part of C30 about the generators of src/js/share-manager.js
C30_CurrentGenerators ==
    (last.op \in {"generateDeclarationText", "generateCompletionText"}
        /\ last.rec.file = "src/js/share-manager.js")
        => /\ Len(last.rec.text) <= maxTweetLength
           /\ last.rec.url # "textTooLong"

\* the texts of titles and authors as long as a task's
C30_TaskSized ==
    (last.op \in {"generateDeclarationText", "generateCompletionText"}
        /\ Len(last.args[1].val) <= MaxTitleLength
        /\ Len(last.args[2].val) <= MaxAuthorLength)
        => Len(last.rec.text) <= maxTweetLength

\* no text of the generators of src/js/share-manager.js is rejected
C30_NeverRejected ==
    (last.op \in {"generateDeclarationText", "generateCompletionText"}
        /\ last.rec.file = "src/js/share-manager.js")
        => last.rec.url = "url"

\* C31: the sanitizedValue validateField returns for bookTitle or author has
\* no whitespace at its ends and no two whitespace characters in a row.
C31_Normalized(s) ==
    /\ s # <<>> => s[1] \notin WhiteSpace /\ s[Len(s)] \notin WhiteSpace
    /\ \A i \in 1..(Len(s) - 1) : ~(s[i] \in WhiteSpace /\ s[i + 1] \in WhiteSpace)

C31_WhitespaceNormalized ==
    (last.op = "validateField" /\ last.ok /\ last.args[1] \in DOMAIN validationRules)
        => C31_Normalized(last.rec.sanitizedValue.val)

\* the part of C31 about texts without control characters and without
\* removed patterns
C31_PlainTexts ==
    (last.op = "validateField" /\ last.ok /\ last.args[1] \in DOMAIN validationRules
        /\ last.args[2].isString
        /\ \A i \in 1..Len(last.args[2].val) : last.args[2].val[i] \notin ControlChars \ WhiteSpace
        /\ ~containsXSS(CollapseSpaces(escapeHtml(trim(last.args[2].val)))))
        => C31_Normalized(last.rec.sanitizedValue.val)

\* C32: what sanitizeForCsv returns does not begin with '=', '+', '-' or '@';
\* when the sanitized input begins with one of them, the output begins with
\* the guard character ' or with a double quote followed by the guard.
C32_CsvGuard ==
    last.op = "sanitizeForCsv"
        => LET out == last.rec
               sanitized == InputValidator_sanitizeInput(last.args[1])
           IN  /\ out # <<>> => out[1] \notin FormulaStarts
               /\ (sanitized # <<>> /\ sanitized[1] \in FormulaStarts)
                     => \/ out[1] = "'"
                        \/ Len(out) >= 2 /\ out[1] = "\"" /\ out[2] = "'"

\* a text that starts a formula once sanitized, and holds a comma, was
\* returned in quotes with the guard after the opening quote
C32_Witness ==
    /\ last.op = "sanitizeForCsv"
    /\ last.args[1].isString
    /\ last.args[1].val # <<>>
    /\ last.args[1].val[1] \notin FormulaStarts
    /\ InputValidator_sanitizeInput(last.args[1]) # <<>>
    /\ InputValidator_sanitizeInput(last.args[1])[1] \in FormulaStarts
    /\ Len(last.rec) >= 2
    /\ last.rec[1] = "\"" /\ last.rec[2] = "'"

\* the ids for which the application invoked the share method, in order
C33_SharedIds(method, shares) ==
    SelectSeq(shares, LAMBDA s : s[1] = method)

C33_Stored(id) ==
    findIndex(localStorage, id) # 0 \/ findIndex(sessionStorage[1], id) # 0

\* C33: handleFormSubmit invokes shareDeclaration only after addTask has
\* returned a persisted task, exactly once per submission that created a
\* task: the step after a returned task is the invocation, the invocation is
\* made from no other position, and the declarations made are the tasks
\* created, one each.  When the validation fails or addTask returns null no
\* task is created and shareDeclaration is not invoked for that submission.
C33_ShareAfterAddTask ==
    [][ /\ last'.op = "shareDeclaration"
           => /\ last.op = "addTask"
              /\ last.rec.task # NoTask
              /\ last.saved = "true"
              /\ findIndex(tasks[1], last.id) # 0
              /\ C33_Stored(last.id)
              /\ last'.rec.shares = Append(last.rec.shares, <<"shareDeclaration", last.id>>)
        /\ last.op = "addTask" => last'.op = "shareDeclaration"
        /\ last'.op # "shareDeclaration"
           => C33_SharedIds("shareDeclaration", last'.rec.shares)
                 = C33_SharedIds("shareDeclaration", last.rec.shares)
        /\ (last'.op = "showValidationErrors"
               \/ (last.op = "validateForm" /\ last'.op = "error"))
           => /\ tasks' = tasks
              /\ localStorage' = localStorage
              /\ sessionStorage' = sessionStorage
              /\ nextId' = nextId
        /\ last.op \in {"showValidationErrors", "error"}
           => last'.op \notin {"addTask", "shareDeclaration"}
        /\ LET declared == C33_SharedIds("shareDeclaration", last'.rec.shares)
           IN  /\ Len(declared) = (nextId' - 1) - (IF last'.op = "addTask" THEN 1 ELSE 0)
               /\ \A i \in 1..Len(declared) : declared[i][2] = generateUUID(i)
      ]_vars

\* the second submission that created a task: its record went to the
\* fallback store and the declaration for it was invoked
C33_Witness ==
    /\ last.op = "shareDeclaration"
    /\ findIndex(sessionStorage[1], last.id) # 0
    /\ Len(last.rec.shares) = 2
    /\ clock = 2

\* C34: under every interleaving of ReadingDeclarationApp.completeTask calls
\* (with form submissions and storage failures between them) shareCompletion
\* is invoked only after TaskManager.completeTask returned a completed
\* record for the id, and at most once for each task id; a call for an
\* unknown id shows an error notification and invokes no share.
C34_CompletionSharedOnce ==
    [][ /\ last'.op = "shareCompletion"
           => /\ last.op = "completeTask"
              /\ last.rec.task # NoTask
              /\ last.rec.task.id = last.id
              /\ last.rec.task.status = "completed"
              /\ last.rec.task.completedAt # Null
              /\ last'.rec.shares = Append(last.rec.shares, <<"shareCompletion", last.id>>)
        /\ last'.op # "shareCompletion"
           => C33_SharedIds("shareCompletion", last'.rec.shares)
                 = C33_SharedIds("shareCompletion", last.rec.shares)
        /\ LET completed == C33_SharedIds("shareCompletion", last'.rec.shares)
           IN  \A i, j \in 1..Len(completed) :
                  completed[i][2] = completed[j][2] => i = j
        /\ (AppIdle /\ last'.op \in {"error", "getTask"}
               /\ getTask(tasks[1], last'.id) = NoTask)
           => /\ last'.op = "error"
              /\ last'.rec.shown = "error:taskNotFound"
              /\ last'.rec.shares = last.rec.shares
        /\ last.op = "error" => last'.op # "shareCompletion"
      ]_vars

\* a second call for a task whose completion was shared: the TaskManager
\* returned null, the error was shown and the share was not invoked again
C34_Witness ==
    /\ last.op = "error"
    /\ last.rec.shown = "error:completeTask"
    /\ last.saved = "notcalled"
    /\ \E i \in 1..Len(last.rec.shares) :
          last.rec.shares[i] = <<"shareCompletion", last.id>>

\* the text the share method called last has generated
C35_Text ==
    IF last.op = "shareDeclaration"
    THEN generateDeclarationText(last.args[1], last.args[2])
    ELSE generateCompletionText(last.args[1], last.args[2])

C35_Holds(text) ==
    LET result == last.rec
        urlGenerated == generateShareUrl(text) = "url"
        blocked == detectPopupBlock(last.args[3])
    IN  /\ result.settled = "resolved"
        /\ (result.success \/ result.method = "popup")
              => /\ result.success /\ result.method = "popup"
                 /\ urlGenerated /\ ~blocked /\ last.args[3] # "throws"
        /\ (~urlGenerated \/ blocked)
              => /\ ~result.success
                 /\ result.method = "manual"
                 /\ result.text = text
                 /\ result.manualOption
                       = <<provideManualPostingOption(text, last.args[4], last.args[5])>>

\* C35: shareDeclaration and shareCompletion always resolve to a result and
\* never reject; the result has success = true and method 'popup' only when
\* the share URL was generated and the popup opened unblocked; when the URL
\* generation fails or the popup is blocked the result has success = false,
\* method 'manual', the generated text and the manual option of
\* provideManualPostingOption.
C35_ShareAlwaysResolves ==
    last.op \in {"shareDeclaration", "shareCompletion"} => Then(C35_Text, C35_Holds)

\* the URL was generated, the popup was blocked, and the text was copied for
\* the manual posting
C35_Witness ==
    /\ last.op = "shareCompletion"
    /\ last.args[3] = "null"
    /\ last.rec.settled = "resolved"
    /\ last.rec.errorType = "POPUP_BLOCKED"
    /\ Len(last.rec.manualOption) = 1
    /\ last.rec.manualOption[1].copied

\* the text went over the limits of generateShareUrl and was handed to the
\* manual posting
C35_WitnessUrl ==
    /\ last.op = "shareDeclaration"
    /\ last.rec.settled = "resolved"
    /\ last.rec.errorType = "URL_GENERATION_ERROR"
    /\ last.args[3] = "open"

\* C36: in every state reachable by show calls and pending removal timers
\* the notifications map has at most maxNotifications (5) entries, also
\* right after a show call that evicted the oldest notification.
C36_AtMostMaxNotifications ==
    Len(last.rec.notifications) <= maxNotifications

\* C37: on one validator instance, after every sequence of containsXSS,
\* validateField and sanitizeInput calls, containsXSS(s) returns true exactly
\* when s contains a recognized pattern.
C37_ContainsXSSDeterministic ==
    last.op = "containsXSS" => (last.rec.ret <=> containsXSS(last.args[1]))

\* the part that holds: containsXSS never reports a string that contains no
\* recognized pattern, and it reports every string that contains one when
\* the call before on the instance was sanitizeInput of a string
C37_AfterSanitizeInput ==
    [][ last'.op = "containsXSS"
           => /\ last'.rec.ret => containsXSS(last'.args[1])
              /\ last.op = "sanitizeInput"
                    => (last'.rec.ret <=> containsXSS(last'.args[1]))
      ]_vars

====
